---- MODULE Spec2Model ----
(***************************************************************************)
(* The YB compiler (Boualili-Youcef/Mini_Compiler): the code generator of  *)
(* Generator.hpp walking an AST of Parser.hpp, and the x86-64 program it   *)
(* emits, executed by a small machine.                                     *)
(*                                                                         *)
(* The generator's recursion (generateBlockCode / generateIfCode /         *)
(* generateWhileCode calling each other) is kept as an explicit stack of   *)
(* call frames, so that every point of the generation is a state.          *)
(* generateExpressionCode takes the symbol tables by const reference and   *)
(* only appends text: it is an operator.                                   *)
(***************************************************************************)
EXTENDS Integers, Sequences, FiniteSets, TLC

(***************************************************************************)
(* Bounds of the model.                                                    *)
(***************************************************************************)
\* Width of a machine word in bits.  The target has 64-bit registers; TLC's
\* integers are 32 bits wide, so the machine is scaled down.  All register
\* arithmetic is modulo 2^WordBits and signed values are two's complement.
WordBits == 12
\* Deepest chain of blocks nested in each other in the generated programs.
MaxDepth == 3
\* Largest operand used in the arithmetic and print programs.
MaxLit == 3
\* The longest source of which every string is tokenized.
MaxSrcLen == 4
\* The longest source made of the characters of words and numbers only.
MaxWordLen == 4
\* The longest source made of operator characters only.
MaxOpLen == 3
\* The most elements of the array literals whose layout is examined.
MaxElements == 3

Word == 2 ^ WordBits
HalfWord == Word \div 2
\* The stack grows down from StackTop; mmap hands out addresses upwards from
\* HeapBase and fails beyond HeapLimit.
StackTop == HalfWord
HeapBase == HalfWord \div 32
HeapLimit == HalfWord \div 2

(***************************************************************************)
(* The AST of Parser.hpp.  A node is a record tagged by its getType().     *)
(***************************************************************************)
IntExpr(n) == [t |-> "INTEGER", value |-> n]
VarExpr(name) == [t |-> "VARIABLE", name |-> name]
BinaryExpr(gauche, op, droite) ==
    [t |-> "BINARY", gauche |-> gauche, op |-> op, droite |-> droite]
ArrayExpr(elements) == [t |-> "ARRAY", elements |-> elements]
ArrayAccessExpr(array, index) == [t |-> "ARRAY_ACCESS", array |-> array, index |-> index]
LengthExpr(array) == [t |-> "LENGTH", array |-> array]

ExitStmt(expr) == [t |-> "EXIT", expr |-> expr]
LetStmt(var, expr) == [t |-> "LET", var |-> var, expr |-> expr]
BlockStmt(statements) == [t |-> "BLOCK", statements |-> statements]
\* elseBranch = nullptr
NoBranch == [t |-> "NULL"]
IfStmt(condition, thenBranch, elseBranch) ==
    [t |-> "IF", condition |-> condition, thenBranch |-> thenBranch,
     elseBranch |-> elseBranch]
WhileStmt(condition, body) == [t |-> "WHILE", condition |-> condition, body |-> body]
AssignStmt(var, expr) == [t |-> "ASSIGN", var |-> var, expr |-> expr]
PrintStmt(expr) == [t |-> "PRINT", expr |-> expr]
ArrayAssignStmt(array, index, value) ==
    [t |-> "ARRAY_ASSIGN", array |-> array, index |-> index, value |-> value]

(***************************************************************************)
(* The assembly text: a sequence of lines.  A line is an instruction with  *)
(* at most two operands, a label definition or a comment.                  *)
(***************************************************************************)
None == [k |-> "none", r |-> "", n |-> 0]
Reg(r) == [k |-> "reg", r |-> r, n |-> 0]
Imm(n) == [k |-> "imm", r |-> "", n |-> n]
\* qword [r + d]
Mem(r, d) == [k |-> "mem", r |-> r, n |-> d]
\* byte [r + d]
MemB(r, d) == [k |-> "memb", r |-> r, n |-> d]
\* the label .<name>_<n>
Lbl(name, n) == [k |-> "lbl", r |-> name, n |-> n]
Txt(s) == [k |-> "txt", r |-> s, n |-> 0]

Ins(op, a, b) == [op |-> op, a |-> a, b |-> b]
Label(name, n) == Ins("label", Lbl(name, n), None)
Comment(s) == Ins("comment", Txt(s), None)

\* The two comments generateBlockCode brackets a block with.  The machine
\* steps over them without effect, so that the entry and the exit of a block
\* are points of the execution.
BlockBegin == Comment("Debut de bloc")
BlockEnd == Comment("Fin de bloc")
IsMarker(line) == line \in {BlockBegin, BlockEnd}

rax == Reg("rax")
rbx == Reg("rbx")
rcx == Reg("rcx")
rdx == Reg("rdx")
rsi == Reg("rsi")
rdi == Reg("rdi")
rsp == Reg("rsp")
rbp == Reg("rbp")
r8 == Reg("r8")
r9 == Reg("r9")
r10 == Reg("r10")
al == Reg("al")
dl == Reg("dl")

\* std::optional<int>
Nullopt == [has |-> FALSE, value |-> 0]
Some(v) == [has |-> TRUE, value |-> v]
\* std::optional<Program> holding nothing.
NoProgram == [has |-> FALSE, value |-> <<>>]

\* An empty std::unordered_map<std::string, int>.
EmptyScope == [x \in {} |-> 0]

\* found = it->find(varName), from the innermost scope outwards.
RECURSIVE findVariableOffset(_, _)
findVariableOffset(varName, symbolTables) ==
    IF symbolTables = <<>> THEN Nullopt
    ELSE LET it == symbolTables[Len(symbolTables)] IN
         IF varName \in DOMAIN it THEN Some(it[varName])
         ELSE findVariableOffset(varName, SubSeq(symbolTables, 1, Len(symbolTables) - 1))

\* The instructions emitted after "pop rbx" for each BinaryOpType.
SetCC(cc) == <<Ins("cmp", rax, rbx), Ins(cc, al, None), Ins("movzx", rax, al)>>

\* A variant that exchanges rax and rbx before the operation, so that the
\* right operand is taken for the left one.
BinaryOpCode_Reversed(op) ==
    <<Ins("push", rax, None), Ins("mov", rax, rbx), Ins("pop", rbx, None)>>
    \o (
    CASE op = "ADD" -> <<Ins("add", rax, rbx)>>
      [] op = "MUL" -> <<Ins("imul", rax, rbx)>>
      [] op = "SUB" -> <<Ins("sub", rax, rbx)>>
      [] op = "DIV" -> <<Ins("mov", rcx, rbx), Ins("xor", rdx, rdx), Ins("div", rcx, None)>>
      [] op = "MOD" -> <<Ins("mov", rcx, rbx), Ins("xor", rdx, rdx), Ins("div", rcx, None),
                         Ins("mov", rax, rdx)>>
      [] op = "EQUAL" -> SetCC("sete")
      [] op = "GREAT" -> SetCC("setg")
      [] op = "LESS" -> SetCC("setl")
      [] op = "GREAT_EQUAL" -> SetCC("setge")
      [] op = "LESS_EQUAL" -> SetCC("setle")
      [] op = "AND" -> <<Ins("and", rax, rbx)>>
      [] op = "OR" -> <<Ins("or", rax, rbx)>>
      [] op = "NOT_EQUAL" -> SetCC("setne"))

\* A variant whose AND and OR leave 1 or 0, as a logical operator would.
BinaryOpCode_Logical(op) ==
    CASE op = "ADD" -> <<Ins("add", rax, rbx)>>
      [] op = "MUL" -> <<Ins("imul", rax, rbx)>>
      [] op = "SUB" -> <<Ins("sub", rax, rbx)>>
      [] op = "DIV" -> <<Ins("mov", rcx, rbx), Ins("xor", rdx, rdx), Ins("div", rcx, None)>>
      [] op = "MOD" -> <<Ins("mov", rcx, rbx), Ins("xor", rdx, rdx), Ins("div", rcx, None),
                         Ins("mov", rax, rdx)>>
      [] op = "EQUAL" -> SetCC("sete")
      [] op = "GREAT" -> SetCC("setg")
      [] op = "LESS" -> SetCC("setl")
      [] op = "GREAT_EQUAL" -> SetCC("setge")
      [] op = "LESS_EQUAL" -> SetCC("setle")
      [] op = "AND" -> <<Ins("and", rax, rbx), Ins("cmp", rax, Imm(0)), Ins("setne", al, None),
                         Ins("movzx", rax, al)>>
      [] op = "OR" -> <<Ins("or", rax, rbx), Ins("cmp", rax, Imm(0)), Ins("setne", al, None),
                        Ins("movzx", rax, al)>>
      [] op = "NOT_EQUAL" -> SetCC("setne")

BinaryOpCode(op) ==
    CASE op = "ADD" -> <<Ins("add", rax, rbx)>>
      [] op = "MUL" -> <<Ins("imul", rax, rbx)>>
      [] op = "SUB" -> <<Ins("sub", rax, rbx)>>
      [] op = "DIV" -> <<Ins("mov", rcx, rbx), Ins("xor", rdx, rdx), Ins("div", rcx, None)>>
      [] op = "MOD" -> <<Ins("mov", rcx, rbx), Ins("xor", rdx, rdx), Ins("div", rcx, None),
                         Ins("mov", rax, rdx)>>
      [] op = "EQUAL" -> SetCC("sete")
      [] op = "GREAT" -> SetCC("setg")
      [] op = "LESS" -> SetCC("setl")
      [] op = "GREAT_EQUAL" -> SetCC("setge")
      [] op = "LESS_EQUAL" -> SetCC("setle")
      [] op = "AND" -> <<Ins("and", rax, rbx)>>
      [] op = "OR" -> <<Ins("or", rax, rbx)>>
      [] op = "NOT_EQUAL" -> SetCC("setne")

\* The mmap call of an array literal of `size` elements.
MmapCode(size) ==
    <<Ins("mov", rax, Imm(9)), Ins("mov", rdi, Imm(0)), Ins("mov", rsi, Imm((size + 1) * 8)),
      Ins("mov", rdx, Imm(3)), Ins("mov", r10, Imm(34)), Ins("mov", r8, Imm(-1)),
      Ins("mov", r9, Imm(0)), Ins("syscall", None, None)>>

RECURSIVE generateExpressionCode(_, _)
RECURSIVE ArrayElementsCode(_, _, _)

\* A variant of the loop that keeps the address in rbx while the element is
\* evaluated, without saving it on the stack.
RECURSIVE ArrayElementsCode_NoSave(_, _, _)
ArrayElementsCode_NoSave(elements, i, symbolTables) ==
    IF i > Len(elements) THEN <<>>
    ELSE <<Ins("mov", rbx, Mem("rsp", 0))>>
         \o generateExpressionCode(elements[i], symbolTables)
         \o <<Ins("mov", Mem("rbx", i * 8), rax)>>
         \o ArrayElementsCode_NoSave(elements, i + 1, symbolTables)

\* The loop over arrayExpr->elements, from element i (1-based here).
ArrayElementsCode(elements, i, symbolTables) ==
    IF i > Len(elements) THEN <<>>
    ELSE <<Ins("mov", rbx, Mem("rsp", 0)), Ins("push", rbx, None)>>
         \o generateExpressionCode(elements[i], symbolTables)
         \o <<Ins("pop", rbx, None), Ins("mov", Mem("rbx", i * 8), rax)>>
         \o ArrayElementsCode(elements, i + 1, symbolTables)

generateExpressionCode(expr, symbolTables) ==
    CASE expr.t = "INTEGER" -> <<Ins("mov", rax, Imm(expr.value))>>
      [] expr.t = "VARIABLE" ->
            LET offsetOpt == findVariableOffset(expr.name, symbolTables) IN
            IF offsetOpt.has
            THEN <<Ins("mov", rax, Mem("rbp", -offsetOpt.value))>>
            ELSE <<Comment("Variable non definie"), Ins("mov", rax, Imm(0))>>
      [] expr.t = "BINARY" ->
            generateExpressionCode(expr.droite, symbolTables)
            \o <<Ins("push", rax, None)>>
            \o generateExpressionCode(expr.gauche, symbolTables)
            \o <<Ins("pop", rbx, None)>>
            \o BinaryOpCode(expr.op)
      [] expr.t = "ARRAY" ->
            MmapCode(Len(expr.elements))
            \o <<Ins("push", rax, None),
                 Ins("mov", rbx, Mem("rsp", 0)),
                 Ins("mov", Mem("rbx", 0), Imm(Len(expr.elements)))>>
            \o ArrayElementsCode(expr.elements, 1, symbolTables)
            \o <<Ins("pop", rax, None)>>
      [] expr.t = "ARRAY_ACCESS" ->
            generateExpressionCode(expr.array, symbolTables)
            \o <<Ins("push", rax, None)>>
            \o generateExpressionCode(expr.index, symbolTables)
            \o <<Ins("add", rax, Imm(1)), Ins("imul", rax, Imm(8)), Ins("pop", rbx, None),
                 Ins("add", rbx, rax), Ins("mov", rax, Mem("rbx", 0))>>
      [] expr.t = "LENGTH" ->
            generateExpressionCode(expr.array, symbolTables)
            \o <<Ins("mov", rax, Mem("rax", 0))>>

\* A variant that leaves the value in rax and never moves it to rdi.
generateExitCode_NoStatus(exitStmt, symbolTables) ==
    generateExpressionCode(exitStmt.expr, symbolTables)
    \o <<Ins("mov", rax, Imm(60)), Ins("syscall", None, None)>>

\* generateExitCode: the expression, then the exit syscall.
generateExitCode(exitStmt, symbolTables) ==
    generateExpressionCode(exitStmt.expr, symbolTables)
    \o <<Ins("mov", rdi, rax), Ins("mov", rax, Imm(60)), Ins("syscall", None, None)>>

\* A variant of generateLetCode that looks the name up in every scope and
\* reuses the slot of an enclosing binding; C8 tells it from the original.
generateLetCode_AnyScope(letStmt, symbolTables, stackOffset) ==
    LET varName == letStmt.var
        exprCode == generateExpressionCode(letStmt.expr, symbolTables)
        last == Len(symbolTables)
        found == findVariableOffset(varName, symbolTables)
        isNew == ~found.has
        newOffset == IF isNew THEN stackOffset + 8 ELSE stackOffset
        offset == IF isNew THEN newOffset ELSE found.value
    IN [code |-> exprCode
                 \o (IF isNew THEN <<Ins("sub", rsp, Imm(8))>> ELSE <<>>)
                 \o <<Ins("mov", Mem("rbp", 0 - offset), rax)>>,
        symbolTables |-> IF isNew
                         THEN [symbolTables EXCEPT ![last] = @ @@ (varName :> newOffset)]
                         ELSE symbolTables,
        stackOffset |-> newOffset]

\* A variant that binds the new slot and leaves stackOffset as it was.
generateLetCode_KeepsOffset(letStmt, symbolTables, stackOffset) ==
    LET varName == letStmt.var
        exprCode == generateExpressionCode(letStmt.expr, symbolTables)
        last == Len(symbolTables)
        currentScope == symbolTables[last]
        isNew == varName \notin DOMAIN currentScope
        newOffset == IF isNew THEN stackOffset + 8 ELSE stackOffset
        newScope == IF isNew THEN currentScope @@ (varName :> newOffset) ELSE currentScope
        offset == newScope[varName]
    IN [code |-> exprCode
                 \o (IF isNew THEN <<Ins("sub", rsp, Imm(8))>> ELSE <<>>)
                 \o <<Ins("mov", Mem("rbp", -offset), rax)>>,
        symbolTables |-> [symbolTables EXCEPT ![last] = newScope],
        stackOffset |-> stackOffset]

\* A variant that binds the new slot without moving rsp below it.
generateLetCode_NoReserve(letStmt, symbolTables, stackOffset) ==
    LET varName == letStmt.var
        exprCode == generateExpressionCode(letStmt.expr, symbolTables)
        last == Len(symbolTables)
        currentScope == symbolTables[last]
        isNew == varName \notin DOMAIN currentScope
        newOffset == IF isNew THEN stackOffset + 8 ELSE stackOffset
        newScope == IF isNew THEN currentScope @@ (varName :> newOffset) ELSE currentScope
        offset == newScope[varName]
    IN [code |-> exprCode \o <<Ins("mov", Mem("rbp", -offset), rax)>>,
        symbolTables |-> [symbolTables EXCEPT ![last] = newScope],
        stackOffset |-> newOffset]

\* A variant that binds the name before it generates the initializer.
generateLetCode_BindsFirst(letStmt, symbolTables, stackOffset) ==
    LET varName == letStmt.var
        last == Len(symbolTables)
        currentScope == symbolTables[last]
        isNew == varName \notin DOMAIN currentScope
        newOffset == IF isNew THEN stackOffset + 8 ELSE stackOffset
        newScope == IF isNew THEN currentScope @@ (varName :> newOffset) ELSE currentScope
        offset == newScope[varName]
        exprCode == generateExpressionCode(letStmt.expr, [symbolTables EXCEPT ![last] = newScope])
    IN [code |-> exprCode
                 \o (IF isNew THEN <<Ins("sub", rsp, Imm(8))>> ELSE <<>>)
                 \o <<Ins("mov", Mem("rbp", -offset), rax)>>,
        symbolTables |-> [symbolTables EXCEPT ![last] = newScope],
        stackOffset |-> newOffset]

\* generateLetCode: the text it appends, and symbolTables and stackOffset
\* (both passed by reference) as it leaves them.
generateLetCode(letStmt, symbolTables, stackOffset) ==
    LET varName == letStmt.var
        exprCode == generateExpressionCode(letStmt.expr, symbolTables)
        last == Len(symbolTables)
        currentScope == symbolTables[last]
        isNew == varName \notin DOMAIN currentScope
        newOffset == IF isNew THEN stackOffset + 8 ELSE stackOffset
        newScope == IF isNew THEN currentScope @@ (varName :> newOffset) ELSE currentScope
        offset == newScope[varName]
    IN [code |-> exprCode
                 \o (IF isNew THEN <<Ins("sub", rsp, Imm(8))>> ELSE <<>>)
                 \o <<Ins("mov", Mem("rbp", -offset), rax)>>,
        symbolTables |-> [symbolTables EXCEPT ![last] = newScope],
        stackOffset |-> newOffset]

\* dynamic_cast<AssignStmt *>(stmt.get()): the null pointer unless stmt is
\* an AssignStmt.
NullStmt == [t |-> "NULL"]
DynamicCastAssignStmt(stmt) == IF stmt.t = "ASSIGN" THEN stmt ELSE NullStmt

\* The search loop of generateAssignCode; -1 when no scope binds varName.
RECURSIVE AssignOffset(_, _, _)
AssignOffset(varName, symbolTables, i) ==
    IF i < 1 THEN -1
    ELSE IF varName \in DOMAIN symbolTables[i] THEN symbolTables[i][varName]
    ELSE AssignOffset(varName, symbolTables, i - 1)

\* generateAssignCode: the text it appends and the lines it writes to
\* std::cerr.
generateAssignCode(assignStmt, symbolTables) ==
    IF assignStmt.t = "NULL" THEN [code |-> <<>>, cerr |-> <<>>]
    ELSE LET offset == AssignOffset(assignStmt.var, symbolTables, Len(symbolTables)) IN
         IF offset = -1
         THEN [code |-> <<>>, cerr |-> <<"Erreur: Variable non declaree">>]
         ELSE [code |-> generateExpressionCode(assignStmt.expr, symbolTables)
                        \o <<Ins("mov", Mem("rbp", -offset), rax)>>,
               cerr |-> <<>>]

\* generatePrintCode, with printCounter the value of the static counter when
\* the function is entered.
generatePrintCode(printStmt, symbolTables, printCounter) ==
    generateExpressionCode(printStmt.expr, symbolTables)
    \o <<Comment("Convertir et afficher l'entier"),
         Ins("sub", rsp, Imm(32)),
         Ins("mov", rcx, rsp),
         Ins("add", rcx, Imm(31)),
         Ins("mov", MemB("rcx", 0), Imm(10)),
         Ins("dec", rcx, None),
         Ins("mov", r10, rax),
         Ins("test", r10, r10),
         Ins("jns", Lbl("print_positive", printCounter), None),
         Ins("neg", r10, None),
         Ins("mov", MemB("rcx", 0), Imm(45)),
         Ins("dec", rcx, None),
         Label("print_positive", printCounter),
         Ins("mov", rax, r10),
         Ins("mov", r9, Imm(10)),
         Label("convert_loop", printCounter),
         Ins("xor", rdx, rdx),
         Ins("div", r9, None),
         Ins("add", dl, Imm(48)),
         Ins("mov", MemB("rcx", 0), dl),
         Ins("dec", rcx, None),
         Ins("test", rax, rax),
         Ins("jnz", Lbl("convert_loop", printCounter), None),
         Ins("lea", rsi, Mem("rcx", 1)),
         Ins("mov", rdx, rsp),
         Ins("add", rdx, Imm(31)),
         Ins("sub", rdx, rcx),
         Ins("mov", rax, Imm(1)),
         Ins("mov", rdi, Imm(1)),
         Ins("syscall", None, None),
         Ins("add", rsp, Imm(32))>>

\* generateArrayAssignCode.
generateArrayAssignCode_OnePop(stmt, symbolTables) ==
    generateExpressionCode(stmt.value, symbolTables)
    \o <<Ins("push", rax, None)>>
    \o generateExpressionCode(stmt.array, symbolTables)
    \o <<Ins("push", rax, None)>>
    \o generateExpressionCode(stmt.index, symbolTables)
    \o <<Ins("add", rax, Imm(1)), Ins("imul", rax, Imm(8)), Ins("pop", rbx, None),
         Ins("add", rbx, rax), Ins("mov", rax, Mem("rsp", 0)), Ins("mov", Mem("rbx", 0), rax)>>

generateArrayAssignCode(stmt, symbolTables) ==
    generateExpressionCode(stmt.value, symbolTables)
    \o <<Ins("push", rax, None)>>
    \o generateExpressionCode(stmt.array, symbolTables)
    \o <<Ins("push", rax, None)>>
    \o generateExpressionCode(stmt.index, symbolTables)
    \o <<Ins("add", rax, Imm(1)), Ins("imul", rax, Imm(8)), Ins("pop", rbx, None),
         Ins("add", rbx, rax), Ins("pop", rax, None), Ins("mov", Mem("rbx", 0), rax)>>

\* What generateAssembly emits before its loop, and its default exit.
Prologue ==
    <<Ins("global", Txt("_start"), None), Ins("section", Txt(".text"), None),
      Ins("label", Txt("_start"), None), Ins("push", rbp, None), Ins("mov", rbp, rsp)>>

DefaultExit ==
    <<Ins("mov", rax, Imm(60)), Ins("mov", rdi, Imm(0)), Ins("syscall", None, None)>>

(***************************************************************************)
(* The state.                                                              *)
(***************************************************************************)
VARIABLES
    program,           \* m_program.statements
    phase,             \* constructed, generating, emitted, running, exited, fault
    frames,            \* the calls in progress, innermost first
    asm,               \* the stringstream assembly
    symbolTables,      \* the stack of scopes
    stackOffset,
    hasExitStmt,
    cerr,              \* the lines written to std::cerr
    boundaries,        \* history: stackOffset where the code of each statement begins
    firstText,         \* history: what the first call of generateAssembly returned
    ifLabelCounter,    \* static int labelCounter of generateIfCode
    whileLabelCounter, \* static int labelCounter of generateWhileCode
    printCounter,      \* static int printCounter of generatePrintCode
    pc,                \* the emitted program running: index of the next line
    reg,               \* its registers
    flags,             \* ZF, SF, and SF # OF as lt
    mem,               \* memory written so far, by address
    brk,               \* first address mmap has not handed out
    out,               \* the bytes written to file descriptor 1
    exitCode,
    blockRsp,          \* history: rsp at the entry of each block being executed
    pushed,            \* history: where and what each push not yet popped has stored
    m_tokens,          \* Parser::m_tokens
    m_position,        \* Parser::m_position
    parsed,            \* what parse() returned: Nullopt or Some(program)
    pastEnd,           \* the token type a read of m_tokens[m_tokens.size()] yields
    oobRead,           \* history: whether such a read has happened
    m_input,           \* Tokenizer::m_input, a sequence of characters
    position,          \* tokenize(): int position
    tokens,            \* tokenize(): std::vector<Token> tokens
    spans,             \* history: the places in m_input each token was read from
    pass,              \* which call of tokenize() on m_input this is; 0 before the first
    firstTokens,       \* history: what the first call returned
    highClass          \* what the <cctype> tests answer for a byte above 0x7F

genVars == <<frames, asm, symbolTables, stackOffset, hasExitStmt, cerr, boundaries, firstText>>
counters == <<ifLabelCounter, whileLabelCounter, printCounter>>
machVars == <<pc, reg, flags, mem, brk, out, exitCode, blockRsp, pushed>>
parserVars == <<m_tokens, m_position, parsed, pastEnd, oobRead>>
lexVars == <<m_input, position, tokens, spans, pass, firstTokens, highClass>>
vars == <<program, phase, genVars, counters, machVars, parserVars, lexVars>>

\* A call in progress.  stmts and i are the statement loop of
\* generateAssembly and generateBlockCode; initialStackOffset is
\* generateBlockCode's local; node and n are the statement and the label
\* number of generateIfCode and generateWhileCode.  entry is a history
\* field the code does not have: symbolTables and stackOffset as they were
\* when generateBlockCode was entered, for the properties to refer to.
NoEntry == [symbolTables |-> <<>>, stackOffset |-> 0]
Frame(fn, stage, stmts, i, initialStackOffset, node, n) ==
    [fn |-> fn, stage |-> stage, stmts |-> stmts, i |-> i,
     initialStackOffset |-> initialStackOffset, node |-> node, n |-> n,
     entry |-> NoEntry]

\* generateBlockCode(blockStmt, ...) just called.
BlockCall(blockStmt) ==
    Frame("generateBlockCode", "enter", blockStmt.statements, 1, 0, NullStmt, 0)

Top == Head(frames)
InLoop(fn) ==
    /\ phase = "generating"
    /\ frames # <<>>
    /\ Top.fn = fn
    /\ Top.stage = "body"
    /\ Top.i <= Len(Top.stmts)
AtTop == InLoop("generateAssembly")
AtBlk == InLoop("generateBlockCode")
CurStmt == Top.stmts[Top.i]
\* The caller's frame once its loop has moved past the current statement.
Advanced == [Top EXCEPT !.i = @ + 1]
\* The frames after a statement handled without a nested call.
Next1 == <<Advanced>> \o Tail(frames)
\* History: the text of a statement, or what follows the last statement of
\* the loop, begins at the next line, with stackOffset as it is now.
Boundary == boundaries' = boundaries \cup {[line |-> Len(asm) + 1, offset |-> stackOffset]}

(***************************************************************************)
(* generateAssembly.                                                       *)
(***************************************************************************)
\* The locals are set up and the prologue is written.
GenerateAssembly ==
    /\ UNCHANGED firstText
    /\ boundaries' = {}
    /\ phase = "constructed"
    /\ phase' = "generating"
    /\ asm' = Prologue
    /\ symbolTables' = <<EmptyScope>>
    /\ stackOffset' = 0
    /\ hasExitStmt' = FALSE
    /\ frames' = <<Frame("generateAssembly", "body", program, 1, 0, NullStmt, 0)>>
    /\ UNCHANGED <<lexVars, parserVars, program, cerr, counters, machVars>>

\* The handlers shared by the switch of generateAssembly and the switch of
\* generateBlockCode, applied to the current statement of the loop.
DoExit ==
    /\ UNCHANGED firstText
    /\ Boundary
    /\ CurStmt.t = "EXIT"
    /\ asm' = asm \o generateExitCode(CurStmt, symbolTables)
    /\ frames' = Next1
    /\ UNCHANGED <<lexVars, parserVars, program, phase, symbolTables, stackOffset, cerr, counters, machVars>>

DoLet ==
    /\ UNCHANGED firstText
    /\ Boundary
    /\ CurStmt.t = "LET"
    /\ LET r == generateLetCode(CurStmt, symbolTables, stackOffset) IN
        /\ asm' = asm \o r.code
        /\ symbolTables' = r.symbolTables
        /\ stackOffset' = r.stackOffset
    /\ frames' = Next1
    /\ UNCHANGED <<lexVars, parserVars, program, phase, hasExitStmt, cerr, counters, machVars>>

DoBlock ==
    /\ UNCHANGED firstText
    /\ Boundary
    /\ CurStmt.t = "BLOCK"
    /\ frames' = <<BlockCall(CurStmt)>> \o Next1
    /\ UNCHANGED <<lexVars, parserVars, program, phase, asm, symbolTables, stackOffset, hasExitStmt, cerr,
                   counters, machVars>>

\* A variant of DoIf that does not advance the label counter; C6 tells it
\* from the original.
DoIf_SameLabel ==
    /\ UNCHANGED firstText
    /\ Boundary
    /\ CurStmt.t = "IF"
    /\ LET n == ifLabelCounter
           target == IF CurStmt.elseBranch.t # "NULL" THEN Lbl("if_else", n)
                     ELSE Lbl("if_end", n)
       IN
        /\ ifLabelCounter' = ifLabelCounter
        /\ asm' = asm \o <<Comment("Debut du if")>>
                      \o generateExpressionCode(CurStmt.condition, symbolTables)
                      \o <<Ins("cmp", rax, Imm(0)), Ins("je", target, None)>>
        /\ frames' = <<BlockCall(CurStmt.thenBranch),
                       Frame("generateIfCode", "then", <<>>, 0, 0, CurStmt, n)>> \o Next1
    /\ UNCHANGED <<lexVars, parserVars, program, phase, symbolTables, stackOffset, hasExitStmt, cerr,
                   whileLabelCounter, printCounter, machVars>>

\* generateIfCode up to its call of generateBlockCode for the then branch.
DoIf ==
    /\ UNCHANGED firstText
    /\ Boundary
    /\ CurStmt.t = "IF"
    /\ LET n == ifLabelCounter
           target == IF CurStmt.elseBranch.t # "NULL" THEN Lbl("if_else", n)
                     ELSE Lbl("if_end", n)
       IN
        /\ ifLabelCounter' = ifLabelCounter + 1
        /\ asm' = asm \o <<Comment("Debut du if")>>
                      \o generateExpressionCode(CurStmt.condition, symbolTables)
                      \o <<Ins("cmp", rax, Imm(0)), Ins("je", target, None)>>
        /\ frames' = <<BlockCall(CurStmt.thenBranch),
                       Frame("generateIfCode", "then", <<>>, 0, 0, CurStmt, n)>> \o Next1
    /\ UNCHANGED <<lexVars, parserVars, program, phase, symbolTables, stackOffset, hasExitStmt, cerr,
                   whileLabelCounter, printCounter, machVars>>

\* generateWhileCode up to its call of generateBlockCode for the body.
DoWhile ==
    /\ UNCHANGED firstText
    /\ Boundary
    /\ CurStmt.t = "WHILE"
    /\ LET n == whileLabelCounter IN
        /\ whileLabelCounter' = whileLabelCounter + 1
        /\ asm' = asm \o <<Label("while_start", n)>>
                      \o generateExpressionCode(CurStmt.condition, symbolTables)
                      \o <<Ins("cmp", rax, Imm(0)), Ins("je", Lbl("while_end", n), None)>>
        /\ frames' = <<BlockCall(CurStmt.body),
                       Frame("generateWhileCode", "body", <<>>, 0, 0, CurStmt, n)>> \o Next1
    /\ UNCHANGED <<lexVars, parserVars, program, phase, symbolTables, stackOffset, hasExitStmt, cerr,
                   ifLabelCounter, printCounter, machVars>>

DoPrint ==
    /\ UNCHANGED firstText
    /\ Boundary
    /\ CurStmt.t = "PRINT"
    /\ asm' = asm \o generatePrintCode(CurStmt, symbolTables, printCounter)
    /\ printCounter' = printCounter + 1
    /\ frames' = Next1
    /\ UNCHANGED <<lexVars, parserVars, program, phase, symbolTables, stackOffset, hasExitStmt, cerr,
                   ifLabelCounter, whileLabelCounter, machVars>>

\* generateAssignCode applied to assignStmt.
DoAssign(assignStmt) ==
    /\ UNCHANGED firstText
    /\ Boundary
    /\ LET r == generateAssignCode(assignStmt, symbolTables) IN
        /\ asm' = asm \o r.code
        /\ cerr' = cerr \o r.cerr
    /\ frames' = Next1
    /\ UNCHANGED <<lexVars, parserVars, program, phase, symbolTables, stackOffset, hasExitStmt, counters, machVars>>

\* The switch of generateAssembly.
TopExit == AtTop /\ DoExit /\ hasExitStmt' = TRUE
TopLet == AtTop /\ DoLet
TopBlock == AtTop /\ DoBlock
TopIf == AtTop /\ DoIf
TopWhile == AtTop /\ DoWhile
TopPrint == AtTop /\ DoPrint
\* case StmtType::ARRAY_ASSIGN calls generateAssignCode on the statement
\* cast to AssignStmt.
TopArrayAssign ==
    /\ AtTop
    /\ CurStmt.t = "ARRAY_ASSIGN"
    /\ DoAssign(DynamicCastAssignStmt(CurStmt))
\* default: every other statement type.
TopDefault ==
    /\ UNCHANGED firstText
    /\ Boundary
    /\ AtTop
    /\ CurStmt.t \notin {"EXIT", "LET", "BLOCK", "IF", "WHILE", "PRINT", "ARRAY_ASSIGN"}
    /\ asm' = asm \o <<Comment("Instruction non supportee")>>
    /\ frames' = Next1
    /\ UNCHANGED <<lexVars, parserVars, program, phase, symbolTables, stackOffset, hasExitStmt, cerr, counters,
                   machVars>>

\* A variant that returns the text as the loop left it, with no default exit.
Epilogue_NoDefaultExit ==
    /\ UNCHANGED <<firstText, asm>>
    /\ Boundary
    /\ phase = "generating"
    /\ frames # <<>>
    /\ Top.fn = "generateAssembly"
    /\ Top.i > Len(Top.stmts)
    /\ frames' = <<>>
    /\ phase' = IF firstText = <<>> THEN "emitted" ELSE "emittedAgain"
    /\ UNCHANGED <<lexVars, parserVars, program, symbolTables, stackOffset, hasExitStmt, cerr, counters, machVars>>

\* After the loop: the default exit, and the text is returned.
Epilogue ==
    /\ UNCHANGED firstText
    /\ Boundary
    /\ phase = "generating"
    /\ frames # <<>>
    /\ Top.fn = "generateAssembly"
    /\ Top.i > Len(Top.stmts)
    /\ asm' = asm \o (IF ~hasExitStmt THEN DefaultExit ELSE <<>>)
    /\ frames' = <<>>
    /\ phase' = IF firstText = <<>> THEN "emitted" ELSE "emittedAgain"
    /\ UNCHANGED <<lexVars, parserVars, program, symbolTables, stackOffset, hasExitStmt, cerr, counters, machVars>>

\* generateAssembly is const and public: it is called once more on the same
\* Generator.  Its locals are set up anew; the static counters of
\* generateIfCode, generateWhileCode and generatePrintCode are those of the
\* process and keep their values.
GenerateAgain ==
    /\ phase = "emitted"
    /\ firstText = <<>>
    /\ firstText' = asm
    /\ phase' = "constructed"
    /\ UNCHANGED <<lexVars, parserVars, program, frames, asm, symbolTables, stackOffset, hasExitStmt, cerr,
                   boundaries, counters, machVars>>

(***************************************************************************)
(* generateBlockCode.                                                      *)
(***************************************************************************)
\* Entry: the new scope and the saved stack offset.
BlockEnter ==
    /\ UNCHANGED firstText
    /\ UNCHANGED boundaries
    /\ phase = "generating"
    /\ frames # <<>>
    /\ Top.fn = "generateBlockCode"
    /\ Top.stage = "enter"
    /\ asm' = asm \o <<BlockBegin>>
    /\ symbolTables' = Append(symbolTables, EmptyScope)
    /\ frames' = <<[Top EXCEPT !.stage = "body", !.initialStackOffset = stackOffset,
                                !.entry = [symbolTables |-> symbolTables,
                                           stackOffset |-> stackOffset]]>>
                 \o Tail(frames)
    /\ UNCHANGED <<lexVars, parserVars, program, phase, stackOffset, hasExitStmt, cerr, counters, machVars>>

\* A variant of BlkExit that records the exit as generateAssembly does for a
\* top-level one; C10 tells it from the original.
BlkExit_SetsFlag == AtBlk /\ DoExit /\ hasExitStmt' = TRUE

\* The switch of generateBlockCode.
BlkExit == AtBlk /\ DoExit /\ UNCHANGED hasExitStmt
BlkLet == AtBlk /\ DoLet
BlkBlock == AtBlk /\ DoBlock
BlkIf == AtBlk /\ DoIf
BlkWhile == AtBlk /\ DoWhile
BlkAssign == AtBlk /\ CurStmt.t = "ASSIGN" /\ DoAssign(DynamicCastAssignStmt(CurStmt))
BlkPrint == AtBlk /\ DoPrint
BlkArrayAssign ==
    /\ UNCHANGED firstText
    /\ Boundary
    /\ AtBlk
    /\ CurStmt.t = "ARRAY_ASSIGN"
    /\ asm' = asm \o generateArrayAssignCode(CurStmt, symbolTables)
    /\ frames' = Next1
    /\ UNCHANGED <<lexVars, parserVars, program, phase, symbolTables, stackOffset, hasExitStmt, cerr, counters,
                   machVars>>

\* A variant of BlockLeave that emits the add but leaves stackOffset as the
\* block made it; C5 tells it from the original.
BlockLeave_KeepsOffset ==
    /\ UNCHANGED firstText
    /\ phase = "generating"
    /\ frames # <<>>
    /\ Top.fn = "generateBlockCode"
    /\ Top.stage = "body"
    /\ Top.i > Len(Top.stmts)
    /\ LET restore == stackOffset > Top.initialStackOffset IN
        /\ asm' = asm
                  \o (IF restore
                      THEN <<Ins("add", rsp, Imm(stackOffset - Top.initialStackOffset))>>
                      ELSE <<>>)
                  \o <<BlockEnd>>
        /\ stackOffset' = stackOffset
    /\ symbolTables' = SubSeq(symbolTables, 1, Len(symbolTables) - 1)
    /\ boundaries' = boundaries \cup {[line |-> Len(asm) + 1, offset |-> stackOffset],
                                       [line |-> Len(asm'), offset |-> stackOffset']}
    /\ frames' = Tail(frames)
    /\ UNCHANGED <<lexVars, parserVars, program, phase, hasExitStmt, cerr, counters, machVars>>

\* After the loop: the stack is restored and the scope is closed.
BlockLeave ==
    /\ UNCHANGED firstText
    /\ phase = "generating"
    /\ frames # <<>>
    /\ Top.fn = "generateBlockCode"
    /\ Top.stage = "body"
    /\ Top.i > Len(Top.stmts)
    /\ LET restore == stackOffset > Top.initialStackOffset IN
        /\ asm' = asm
                  \o (IF restore
                      THEN <<Ins("add", rsp, Imm(stackOffset - Top.initialStackOffset))>>
                      ELSE <<>>)
                  \o <<BlockEnd>>
        /\ stackOffset' = IF restore THEN Top.initialStackOffset ELSE stackOffset
    /\ symbolTables' = SubSeq(symbolTables, 1, Len(symbolTables) - 1)
    /\ boundaries' = boundaries \cup {[line |-> Len(asm) + 1, offset |-> stackOffset],
                                       [line |-> Len(asm'), offset |-> stackOffset']}
    /\ frames' = Tail(frames)
    /\ UNCHANGED <<lexVars, parserVars, program, phase, hasExitStmt, cerr, counters, machVars>>

(***************************************************************************)
(* generateIfCode and generateWhileCode after their nested calls.          *)
(***************************************************************************)
\* The then block has been generated and there is an else branch: the jump
\* over it, its label, and the call of generateBlockCode for it.
IfElse ==
    /\ UNCHANGED firstText
    /\ UNCHANGED boundaries
    /\ phase = "generating"
    /\ frames # <<>>
    /\ Top.fn = "generateIfCode"
    /\ Top.stage = "then"
    /\ Top.node.elseBranch.t # "NULL"
    /\ asm' = asm \o <<Ins("jmp", Lbl("if_else", Top.n), None), Label("if_else", Top.n)>>
    /\ frames' = <<BlockCall(Top.node.elseBranch), [Top EXCEPT !.stage = "else"]>>
                 \o Tail(frames)
    /\ UNCHANGED <<lexVars, parserVars, program, phase, symbolTables, stackOffset, hasExitStmt, cerr, counters,
                   machVars>>

\* The end label; generateIfCode returns.
IfEnd ==
    /\ UNCHANGED firstText
    /\ UNCHANGED boundaries
    /\ phase = "generating"
    /\ frames # <<>>
    /\ Top.fn = "generateIfCode"
    /\ Top.stage = "else" \/ Top.node.elseBranch.t = "NULL"
    /\ asm' = asm \o <<Label("if_end", Top.n), Comment("Fin du if")>>
    /\ frames' = Tail(frames)
    /\ UNCHANGED <<lexVars, parserVars, program, phase, symbolTables, stackOffset, hasExitStmt, cerr, counters,
                   machVars>>

\* The body has been generated: the jump back and the end label.
WhileEnd_NoJump ==
    /\ UNCHANGED firstText
    /\ UNCHANGED boundaries
    /\ phase = "generating"
    /\ frames # <<>>
    /\ Top.fn = "generateWhileCode"
    /\ asm' = asm \o <<Label("while_end", Top.n)>>
    /\ frames' = Tail(frames)
    /\ UNCHANGED <<lexVars, parserVars, program, phase, symbolTables, stackOffset, hasExitStmt, cerr, counters,
                   machVars>>

WhileEnd ==
    /\ UNCHANGED firstText
    /\ UNCHANGED boundaries
    /\ phase = "generating"
    /\ frames # <<>>
    /\ Top.fn = "generateWhileCode"
    /\ asm' = asm \o <<Ins("jmp", Lbl("while_start", Top.n), None),
                       Label("while_end", Top.n)>>
    /\ frames' = Tail(frames)
    /\ UNCHANGED <<lexVars, parserVars, program, phase, symbolTables, stackOffset, hasExitStmt, cerr, counters,
                   machVars>>

(***************************************************************************)
(* The emitted program, assembled and run (scripts/test.sh).  A register   *)
(* holds a value in 0 .. Word-1.  Memory is kept by the address of each    *)
(* cell written, 8 bytes for a qword and 1 for a byte; memory never        *)
(* written reads 0 (a fresh stack page, a fresh anonymous mapping).        *)
(***************************************************************************)
RegNames == {"rax", "rbx", "rcx", "rdx", "rsi", "rdi", "rsp", "rbp",
             "r8", "r9", "r10", "r11"}

W(x) == x % Word
Signed(v) == IF v >= HalfWord THEN v - Word ELSE v

RECURSIVE BitAnd(_, _)
BitAnd(x, y) ==
    IF x = 0 \/ y = 0 THEN 0
    ELSE (x % 2) * (y % 2) + 2 * BitAnd(x \div 2, y \div 2)

RECURSIVE BitOr(_, _)
BitOr(x, y) ==
    IF x = 0 THEN y
    ELSE IF y = 0 THEN x
    ELSE (IF x % 2 = 1 \/ y % 2 = 1 THEN 1 ELSE 0) + 2 * BitOr(x \div 2, y \div 2)

BitXor(x, y) == BitOr(x, y) - BitAnd(x, y)

\* The low byte of rax and of rdx.
ByteRegOf(r) == IF r = "al" THEN "rax" ELSE "rdx"
IsByteReg(r) == r \in {"al", "dl"}

\* The address of a memory operand.
Addr(o) == W(reg[o.r] + o.n)

\* Addresses the process may touch: its mappings and its stack.
Mapped(a) == (a >= HeapBase /\ a < brk) \/ (a >= HeapLimit /\ a < Word)

Load(a) == IF a \in DOMAIN mem THEN mem[a] ELSE 0

\* The value of a source operand.
Read(o) ==
    CASE o.k = "imm" -> W(o.n)
      [] o.k = "reg" -> IF IsByteReg(o.r) THEN reg[ByteRegOf(o.r)] % 256 ELSE reg[o.r]
      [] o.k = "mem" -> Load(Addr(o))
      [] o.k = "memb" -> Load(Addr(o)) % 256

\* The registers and the memory after value v is written to operand o.
RegAfter(o, v) ==
    IF o.k # "reg" THEN reg
    ELSE IF IsByteReg(o.r)
         THEN [reg EXCEPT ![ByteRegOf(o.r)] = (@ \div 256) * 256 + (v % 256)]
         ELSE [reg EXCEPT ![o.r] = W(v)]

StoreAt(a, v) == [x \in DOMAIN mem \cup {a} |-> IF x = a THEN v ELSE mem[x]]

MemAfter(o, v) ==
    CASE o.k = "mem" -> StoreAt(Addr(o), W(v))
      [] o.k = "memb" -> StoreAt(Addr(o), v % 256)
      [] OTHER -> mem

\* Whether executing the line touches memory outside the process's mappings.
Touches(o) == o.k \in {"mem", "memb"} /\ ~Mapped(Addr(o))

\* The lines the machine stops at: the instructions and the block markers.
IsCode(line) == line.op \notin {"label", "comment", "global", "section"} \/ IsMarker(line)

\* The first instruction at or after line i; Len(asm) + 1 when there is none.
RECURSIVE NextCode(_)
NextCode(i) ==
    IF i > Len(asm) THEN Len(asm) + 1
    ELSE IF IsCode(asm[i]) THEN i
    ELSE NextCode(i + 1)

\* The line defining a label (the first, should there be several).
LabelIndex(l) ==
    CHOOSE i \in 1..Len(asm) :
        /\ asm[i] = Ins("label", l, None)
        /\ \A j \in 1..(i - 1) : asm[j] # Ins("label", l, None)

Cur == asm[pc]
Running == phase = "running" /\ pc <= Len(asm)

ArithOps == {"add", "sub", "and", "or", "xor", "imul"}
Arith(op, x, y) ==
    CASE op = "add" -> W(x + y)
      [] op = "sub" -> W(x - y)
      [] op = "and" -> BitAnd(x, y)
      [] op = "or" -> BitOr(x, y)
      [] op = "xor" -> BitXor(x, y)
      [] op = "imul" -> W(x * y)

SetOps == {"sete", "setne", "setg", "setl", "setge", "setle"}
Cond(op) ==
    CASE op = "sete" -> flags.zf
      [] op = "setne" -> ~flags.zf
      [] op = "setl" -> flags.lt
      [] op = "setge" -> ~flags.lt
      [] op = "setg" -> ~flags.zf /\ ~flags.lt
      [] op = "setle" -> flags.zf \/ flags.lt

\* nasm and ld build the program; the kernel starts it at _start.
Run ==
    /\ phase = "emitted"
    /\ phase' = "running"
    /\ pc' = NextCode(1)
    /\ UNCHANGED <<lexVars, parserVars, program, genVars, counters, reg, flags, mem, brk, out, exitCode, blockRsp, pushed>>

\* mov, movzx, lea, the arithmetic instructions, neg, dec, setcc.
ExecMove ==
    /\ Running
    /\ Cur.op \in {"mov", "movzx", "lea"} \cup ArithOps \cup {"neg", "dec"} \cup SetOps
    /\ LET v == CASE Cur.op \in {"mov", "movzx"} -> Read(Cur.b)
                  [] Cur.op = "lea" -> Addr(Cur.b)
                  [] Cur.op \in ArithOps -> Arith(Cur.op, Read(Cur.a), Read(Cur.b))
                  [] Cur.op = "neg" -> W(0 - Read(Cur.a))
                  [] Cur.op = "dec" -> W(Read(Cur.a) - 1)
                  [] Cur.op \in SetOps -> IF Cond(Cur.op) THEN 1 ELSE 0
           bad == Touches(Cur.a) \/ (Cur.op # "lea" /\ Touches(Cur.b))
       IN IF bad
          THEN phase' = "fault" /\ UNCHANGED <<pc, reg, mem>>
          ELSE /\ reg' = RegAfter(Cur.a, v)
               /\ mem' = MemAfter(Cur.a, v)
               /\ pc' = NextCode(pc + 1)
               /\ UNCHANGED phase
    /\ UNCHANGED <<lexVars, parserVars, program, genVars, counters, flags, brk, out, exitCode, blockRsp, pushed>>

\* push and pop.
ExecStack ==
    /\ Running
    /\ Cur.op \in {"push", "pop"}
    /\ IF Cur.op = "push"
       THEN LET sp == W(reg["rsp"] - 8) IN
            IF ~Mapped(sp) THEN phase' = "fault" /\ UNCHANGED <<pc, reg, mem>>
            ELSE /\ mem' = StoreAt(sp, Read(Cur.a))
                 /\ reg' = [reg EXCEPT !["rsp"] = sp]
                 /\ pc' = NextCode(pc + 1)
                 /\ UNCHANGED phase
       ELSE IF ~Mapped(reg["rsp"]) THEN phase' = "fault" /\ UNCHANGED <<pc, reg, mem>>
            ELSE /\ reg' = [RegAfter(Cur.a, Load(reg["rsp"])) EXCEPT
                              !["rsp"] = W(reg["rsp"] + 8)]
                 /\ pc' = NextCode(pc + 1)
                 /\ UNCHANGED <<phase, mem>>
    /\ UNCHANGED <<lexVars, parserVars, program, genVars, counters, flags, brk, out, exitCode, blockRsp>>
    /\ pushed' = IF phase' = "fault" THEN pushed
                 ELSE IF Cur.op = "push"
                      THEN <<[at |-> W(reg["rsp"] - 8), value |-> Read(Cur.a)]>> \o pushed
                 ELSE IF pushed = <<>> THEN pushed
                 ELSE Tail(pushed)

\* cmp and test set the flags.
ExecCompare ==
    /\ Running
    /\ Cur.op \in {"cmp", "test"}
    /\ LET x == Read(Cur.a)
           y == Read(Cur.b)
           t == BitAnd(x, y)
       IN flags' = IF Cur.op = "cmp"
                   THEN [zf |-> x = y, sf |-> W(x - y) >= HalfWord,
                         lt |-> Signed(x) < Signed(y)]
                   ELSE [zf |-> t = 0, sf |-> t >= HalfWord, lt |-> t >= HalfWord]
    /\ pc' = NextCode(pc + 1)
    /\ UNCHANGED <<lexVars, parserVars, program, phase, genVars, counters, reg, mem, brk, out, exitCode, blockRsp, pushed>>

\* div: unsigned division of rdx:rax; a zero divisor or a quotient that does
\* not fit raises #DE.
ExecDiv ==
    /\ Running
    /\ Cur.op = "div"
    /\ LET d == Read(Cur.a)
           n == reg["rdx"] * Word + reg["rax"]
       IN IF d = 0 \/ n \div d >= Word
          THEN phase' = "fault" /\ UNCHANGED <<pc, reg>>
          ELSE /\ reg' = [reg EXCEPT !["rax"] = n \div d, !["rdx"] = n % d]
               /\ pc' = NextCode(pc + 1)
               /\ UNCHANGED phase
    /\ UNCHANGED <<lexVars, parserVars, program, genVars, counters, flags, mem, brk, out, exitCode, blockRsp, pushed>>

\* jmp, je, jns, jnz.
ExecJump ==
    /\ Running
    /\ Cur.op \in {"jmp", "je", "jns", "jnz"}
    /\ LET taken == CASE Cur.op = "jmp" -> TRUE
                      [] Cur.op = "je" -> flags.zf
                      [] Cur.op = "jns" -> ~flags.sf
                      [] Cur.op = "jnz" -> ~flags.zf
       IN pc' = IF taken THEN NextCode(LabelIndex(Cur.a)) ELSE NextCode(pc + 1)
    /\ UNCHANGED <<lexVars, parserVars, program, phase, genVars, counters, reg, flags, mem, brk, out, exitCode, blockRsp, pushed>>

\* syscall 60: exit(rdi).  The status the parent sees is its low byte.
SysExit ==
    /\ Running
    /\ Cur.op = "syscall"
    /\ reg["rax"] = 60
    /\ phase' = "exited"
    /\ exitCode' = reg["rdi"] % 256
    /\ UNCHANGED <<lexVars, parserVars, program, genVars, counters, pc, reg, flags, mem, brk, out, blockRsp, pushed>>

\* syscall 1: write(rdi, rsi, rdx).
SysWrite ==
    /\ Running
    /\ Cur.op = "syscall"
    /\ reg["rax"] = 1
    /\ out' = IF reg["rdi"] = 1
              THEN out \o [i \in 1..reg["rdx"] |-> Load(W(reg["rsi"] + i - 1)) % 256]
              ELSE out
    /\ reg' = [reg EXCEPT !["rax"] = reg["rdx"], !["rcx"] = pc + 1, !["r11"] = 0]
    /\ pc' = NextCode(pc + 1)
    /\ UNCHANGED <<lexVars, parserVars, program, phase, genVars, counters, flags, mem, brk, exitCode, blockRsp, pushed>>

\* syscall 9: mmap(0, rsi, ...) of fresh zero-filled memory; -ENOMEM when
\* the address space is used up.
SysMmap ==
    /\ Running
    /\ Cur.op = "syscall"
    /\ reg["rax"] = 9
    /\ IF brk + reg["rsi"] <= HeapLimit
       THEN /\ reg' = [reg EXCEPT !["rax"] = brk, !["rcx"] = pc + 1, !["r11"] = 0]
            /\ brk' = brk + reg["rsi"]
       ELSE /\ reg' = [reg EXCEPT !["rax"] = W(-12), !["rcx"] = pc + 1, !["r11"] = 0]
            /\ UNCHANGED brk
    /\ pc' = NextCode(pc + 1)
    /\ UNCHANGED <<lexVars, parserVars, program, phase, genVars, counters, flags, mem, out, exitCode, blockRsp, pushed>>

\* A block marker: nothing happens but the history of rsp.
ExecBlockMarker ==
    /\ Running
    /\ IsMarker(Cur)
    /\ blockRsp' = IF Cur = BlockBegin THEN <<reg["rsp"]>> \o blockRsp ELSE Tail(blockRsp)
    /\ pc' = NextCode(pc + 1)
    /\ UNCHANGED <<lexVars, parserVars, program, phase, genVars, counters, reg, flags, mem, brk, out, exitCode,
                   pushed>>

(***************************************************************************)
(* The programs the generator is constructed with: small whole programs   *)
(* and families that vary one construct at a time.  A literal is a         *)
(* natural number, as the tokenizer only produces digits; a negative value *)
(* is written 0 - n.                                                       *)
(***************************************************************************)
Lit(n) == IntExpr(n)
Minus(n) == BinaryExpr(Lit(0), "SUB", Lit(n))
Bin(l, op, r) == BinaryExpr(l, op, r)

\* exit(42);
ProgExit == <<ExitStmt(Lit(42))>>
\* let x = 10; let y = 32; exit(x + y);
ProgLet == <<LetStmt("x", Lit(10)), LetStmt("y", Lit(32)),
             ExitStmt(Bin(VarExpr("x"), "ADD", VarExpr("y")))>>
\* let i = 0; while (i < 5) { i = i + 1; } exit(i);
ProgWhile == <<LetStmt("i", Lit(0)),
               WhileStmt(Bin(VarExpr("i"), "LESS", Lit(5)),
                         BlockStmt(<<AssignStmt("i", Bin(VarExpr("i"), "ADD", Lit(1)))>>)),
               ExitStmt(VarExpr("i"))>>
\* let a = [10, 20, 30]; exit(a[1]);
ProgArray == <<LetStmt("a", ArrayExpr(<<Lit(10), Lit(20), Lit(30)>>)),
               ExitStmt(ArrayAccessExpr(VarExpr("a"), Lit(1)))>>
\* let a = [1, 2, 3]; exit(len(a));
ProgLength == <<LetStmt("a", ArrayExpr(<<Lit(1), Lit(2), Lit(3)>>)),
                ExitStmt(LengthExpr(VarExpr("a")))>>
\* let n = c; if (n > t) { print(n); } else { print(0); } exit(0);
ProgIfElse(c, t) ==
    <<LetStmt("n", Lit(c)),
      IfStmt(Bin(VarExpr("n"), "GREAT", Lit(t)),
             BlockStmt(<<PrintStmt(VarExpr("n"))>>),
             BlockStmt(<<PrintStmt(Lit(0))>>)),
      ExitStmt(Lit(0))>>
\* let n = c; if (n == 0) { print(1); } else if (n == 1) { print(2); } else { print(3); }
ProgElseIf(c) ==
    <<LetStmt("n", Lit(c)),
      IfStmt(Bin(VarExpr("n"), "EQUAL", Lit(0)),
             BlockStmt(<<PrintStmt(Lit(1))>>),
             BlockStmt(<<IfStmt(Bin(VarExpr("n"), "EQUAL", Lit(1)),
                                BlockStmt(<<PrintStmt(Lit(2))>>),
                                BlockStmt(<<PrintStmt(Lit(3))>>))>>))>>
\* let x = 1; x = 2; exit(x);
ProgAssign == <<LetStmt("x", Lit(1)), AssignStmt("x", Lit(2)), ExitStmt(VarExpr("x"))>>
\* let x = 1; { x = 2; } exit(x);
ProgAssignInBlock ==
    <<LetStmt("x", Lit(1)), BlockStmt(<<AssignStmt("x", Lit(2))>>), ExitStmt(VarExpr("x"))>>
\* let a = [1, 2]; a[0] = 5; exit(a[0]);
ProgIndexAssign ==
    <<LetStmt("a", ArrayExpr(<<Lit(1), Lit(2)>>)),
      ArrayAssignStmt(VarExpr("a"), Lit(0), Lit(5)),
      ExitStmt(ArrayAccessExpr(VarExpr("a"), Lit(0)))>>
\* let a = [1, 2]; { a[0] = 5; } exit(a[0]);
ProgIndexAssignInBlock ==
    <<LetStmt("a", ArrayExpr(<<Lit(1), Lit(2)>>)),
      BlockStmt(<<ArrayAssignStmt(VarExpr("a"), Lit(0), Lit(5))>>),
      ExitStmt(ArrayAccessExpr(VarExpr("a"), Lit(0)))>>
\* let x = 1; { let x = 2; exit(x); }
ProgShadow ==
    <<LetStmt("x", Lit(1)), BlockStmt(<<LetStmt("x", Lit(2)), ExitStmt(VarExpr("x"))>>)>>
\* let x = 1; { let x = 2; } exit(x);
ProgShadowEnds ==
    <<LetStmt("x", Lit(1)), BlockStmt(<<LetStmt("x", Lit(2))>>), ExitStmt(VarExpr("x"))>>
\* let x = 1; { let x = x + 1; exit(x); }
ProgShadowInit ==
    <<LetStmt("x", Lit(1)),
      BlockStmt(<<LetStmt("x", Bin(VarExpr("x"), "ADD", Lit(1))), ExitStmt(VarExpr("x"))>>)>>
\* exit(len([]));
ProgEmptyArray == <<ExitStmt(LengthExpr(ArrayExpr(<<>>)))>>

\* let a = [e, ...]; exit(0); for up to MaxElements elements, each a literal,
\* an operation (its code uses rbx) or an array literal.
ArrayElements ==
    {Lit(1), Bin(Lit(2), "ADD", Lit(3)), Bin(Lit(7), "SUB", Lit(9)),
     ArrayExpr(<<Lit(4)>>), ArrayExpr(<<>>)}
RECURSIVE ElementLists(_)
ElementLists(n) ==
    IF n = 0 THEN {<<>>}
    ELSE LET shorter == ElementLists(n - 1) IN
         shorter \cup {Append(l, e) : l \in shorter, e \in ArrayElements}
ProgArrayLiteral(elements) == <<LetStmt("a", ArrayExpr(elements)), ExitStmt(Lit(0))>>
ArrayPrograms == {ProgArrayLiteral(elements) : elements \in ElementLists(MaxElements)}

\* let a = [10, 20, 30]; a[i] = v; exit(a[j]); with the assignment at the top
\* level or in a block of its own, and with exit(len(a)) for j = 3.
IndexValues == <<10, 20, 30>>
IndexRead(j) ==
    IF j = Len(IndexValues) THEN LengthExpr(VarExpr("a"))
    ELSE ArrayAccessExpr(VarExpr("a"), Lit(j))
ProgIndex(inBlock, i, v, j) ==
    <<LetStmt("a", ArrayExpr(<<Lit(IndexValues[1]), Lit(IndexValues[2]),
                               Lit(IndexValues[3])>>)),
      IF inBlock THEN BlockStmt(<<ArrayAssignStmt(VarExpr("a"), Lit(i), Lit(v))>>)
      ELSE ArrayAssignStmt(VarExpr("a"), Lit(i), Lit(v)),
      ExitStmt(IndexRead(j))>>
IndexPrograms ==
    {ProgIndex(inBlock, i, v, j) :
        inBlock \in BOOLEAN, i \in 0 .. 2, v \in {0, 5}, j \in 0 .. 3}

\* let i = a; while (i < b) { print(i); i = i + 1; } exit(i);
ProgCountUp(a, b) ==
    <<LetStmt("i", Lit(a)),
      WhileStmt(Bin(VarExpr("i"), "LESS", Lit(b)),
                BlockStmt(<<PrintStmt(VarExpr("i")),
                            AssignStmt("i", Bin(VarExpr("i"), "ADD", Lit(1)))>>)),
      ExitStmt(VarExpr("i"))>>
\* let i = a; while (i) { i = i - 1; print(i); } exit(i);
ProgCountDown(a) ==
    <<LetStmt("i", Lit(a)),
      WhileStmt(VarExpr("i"),
                BlockStmt(<<AssignStmt("i", Bin(VarExpr("i"), "SUB", Lit(1))),
                            PrintStmt(VarExpr("i"))>>)),
      ExitStmt(VarExpr("i"))>>
WhileBounds == 0 .. MaxLit
WhilePrograms ==
    {ProgCountUp(a, b) : a \in WhileBounds, b \in WhileBounds}
        \cup {ProgCountDown(a) : a \in WhileBounds}

\* exit(e); at a depth, with statements after it at every level on the way
\* out: let x = 10; let y = 32; then the exit inside `depth` statements of one
\* kind (a block, an if taken, an else taken, a while), then print(8); exit(9);
ExitExprs ==
    {Lit(42), Bin(VarExpr("x"), "ADD", VarExpr("y")), Bin(VarExpr("y"), "SUB", VarExpr("x")),
     Bin(VarExpr("x"), "SUB", VarExpr("y"))}
ExitValue(e) ==
    CASE e.t = "INTEGER" -> 42
      [] e.op = "ADD" -> 42
      [] e.gauche.name = "y" -> 22
      [] OTHER -> -22
AfterExit == <<AssignStmt("x", Lit(5)), PrintStmt(Lit(7)), ExitStmt(Lit(9))>>
ExitWrap(kind, inner) ==
    CASE kind = 1 -> BlockStmt(inner)
      [] kind = 2 -> IfStmt(VarExpr("x"), BlockStmt(inner), NoBranch)
      [] kind = 3 -> IfStmt(Lit(0), BlockStmt(<<PrintStmt(Lit(1))>>), BlockStmt(inner))
      [] kind = 4 -> WhileStmt(VarExpr("x"), BlockStmt(inner))
ExitKinds == 1 .. 4
RECURSIVE ExitNest(_, _, _)
ExitNest(depth, kind, e) ==
    IF depth = 0 THEN <<ExitStmt(e)>> \o AfterExit
    ELSE <<ExitWrap(kind, ExitNest(depth - 1, kind, e)), PrintStmt(Lit(8)), ExitStmt(Lit(9))>>
ProgExitAt(depth, kind, e) ==
    <<LetStmt("x", Lit(10)), LetStmt("y", Lit(32))>> \o ExitNest(depth, kind, e)
ExitPrograms ==
    {ProgExitAt(depth, kind, e) : depth \in 0 .. MaxDepth, kind \in ExitKinds, e \in ExitExprs}

\* exit(l op r); for operands of either sign, one of them an operation
\* itself, and every operator with a value of its own.
BinaryOperands ==
    {Lit(n) : n \in 0 .. MaxLit} \cup {Minus(n) : n \in 1 .. MaxLit}
        \cup {Bin(Lit(3), "SUB", Lit(1))}
ValueOps ==
    {"ADD", "SUB", "MUL", "DIV", "MOD", "EQUAL", "NOT_EQUAL", "LESS", "GREAT", "LESS_EQUAL",
     "GREAT_EQUAL"}
ProgBinary(l, op, r) == <<ExitStmt(Bin(l, op, r))>>
\* exit([1] - [2, 3]);
ProgArrayDifference ==
    <<ExitStmt(Bin(ArrayExpr(<<Lit(1)>>), "SUB", ArrayExpr(<<Lit(2), Lit(3)>>)))>>
BinaryPrograms ==
    {ProgBinary(l, op, r) : l \in BinaryOperands, op \in ValueOps, r \in BinaryOperands}
        \cup {ProgArrayDifference}

\* exit(l && r); and exit(l || r); for the same operands, and for operands
\* that allocate: exit(len([]) op len([7]));
LogicalOps == {"AND", "OR"}
ProgLogicalArrays(op) ==
    <<ExitStmt(Bin(LengthExpr(ArrayExpr(<<>>)), op, LengthExpr(ArrayExpr(<<Lit(7)>>))))>>
LogicalPrograms ==
    {ProgBinary(l, op, r) : l \in BinaryOperands, op \in LogicalOps, r \in BinaryOperands}
        \cup {ProgLogicalArrays(op) : op \in LogicalOps}

\* let x = v; { let x = x + 1; exit(x); } with the inner let at block depth
\* 1 or 2; let y = y + v; exit(y); where nothing binds y before; and
\* let x = v; let x = x + 1; exit(x); where the scope binds x already.
ProgLetInit(v, depth) ==
    LET inner == <<LetStmt("x", Bin(VarExpr("x"), "ADD", Lit(1))), ExitStmt(VarExpr("x"))>>
    IN <<LetStmt("x", Lit(v)),
         IF depth = 1 THEN BlockStmt(inner) ELSE BlockStmt(<<BlockStmt(inner)>>)>>
ProgLetUnbound(v) ==
    <<LetStmt("y", Bin(VarExpr("y"), "ADD", Lit(v))), ExitStmt(VarExpr("y"))>>
ProgLetSame(v) ==
    <<LetStmt("x", Lit(v)), LetStmt("x", Bin(VarExpr("x"), "ADD", Lit(1))), ExitStmt(VarExpr("x"))>>
LetInitPrograms ==
    {ProgLetInit(v, depth) : v \in 0 .. MaxLit, depth \in 1 .. 2}
        \cup {ProgLetUnbound(v) : v \in 0 .. MaxLit}
        \cup {ProgLetSame(v) : v \in 0 .. MaxLit}

\* let c = v; then an exit(7); that no top-level statement holds: in a block,
\* in an if taken when c is not 0, in the else of one, in a while; or no exit
\* at all.
ProgNestedExit(kind, c) ==
    <<LetStmt("c", Lit(c))>>
        \o CASE kind = 1 -> <<BlockStmt(<<ExitStmt(Lit(7))>>)>>
              [] kind = 2 -> <<IfStmt(VarExpr("c"), BlockStmt(<<ExitStmt(Lit(7))>>), NoBranch)>>
              [] kind = 3 -> <<IfStmt(VarExpr("c"), BlockStmt(<<PrintStmt(Lit(1))>>),
                                      BlockStmt(<<ExitStmt(Lit(7))>>))>>
              [] kind = 4 -> <<WhileStmt(VarExpr("c"), BlockStmt(<<ExitStmt(Lit(7))>>))>>
              [] kind = 5 -> <<>>
NestedExitKinds == 1 .. 5
\* Whether the exit(7); of ProgNestedExit(kind, c) is executed.  The then
\* branch of an if with an else ends with jmp to the else label, so the else
\* is executed whatever c is.
NestedExitTaken(kind, c) ==
    CASE kind \in {1, 3} -> TRUE
      [] kind \in {2, 4} -> c # 0
      [] kind = 5 -> FALSE
NestedExitPrograms == {ProgNestedExit(kind, c) : kind \in NestedExitKinds, c \in 0 .. 1}

Scenarios ==
    {<<>>, ProgExit, ProgLet, ProgWhile, ProgArray, ProgLength, ProgIfElse(7, 5),
     ProgAssign, ProgAssignInBlock, ProgIndexAssign, ProgIndexAssignInBlock,
     ProgShadow, ProgShadowEnds, ProgShadowInit, ProgEmptyArray}

\* print(e); for a literal or a negated literal, up to both ends of the
\* word.
PrintMagnitudes == (0 .. MaxLit) \cup {9, 10, 11, 99, 100, 101, HalfWord - 1, HalfWord}
PrintExprs ==
    {Lit(m) : m \in PrintMagnitudes \ {HalfWord}} \cup {Minus(m) : m \in PrintMagnitudes \ {0}}
PrintPrograms == {<<PrintStmt(e)>> : e \in PrintExprs}

IfPrograms ==
    {ProgIfElse(c, t) : c \in 0 .. MaxLit, t \in 0 .. MaxLit}
        \cup {ProgElseIf(c) : c \in 0 .. MaxLit}

\* Statement lists nested to a depth: the innermost lists, and the ways of
\* putting a list inside a block, an if, an if-else or a while among
\* declarations, assignments and uses of the same names.  z is never
\* declared.
Innermost ==
    {<<>>,
     <<LetStmt("x", Lit(7)), ExitStmt(VarExpr("x"))>>,
     <<AssignStmt("x", Lit(9))>>,
     <<ExitStmt(VarExpr("z"))>>,
     <<AssignStmt("z", Lit(1))>>,
     <<LetStmt("a", ArrayExpr(<<Lit(1), Lit(2)>>)),
       ArrayAssignStmt(VarExpr("a"), Lit(0), Lit(5)),
       PrintStmt(ArrayAccessExpr(VarExpr("a"), Lit(0)))>>}

Around(k, inner) ==
    CASE k = 1 -> <<LetStmt("x", Lit(1)), BlockStmt(inner), ExitStmt(VarExpr("x"))>>
      [] k = 2 -> <<LetStmt("x", Lit(1)), LetStmt("x", Lit(2)),
                    IfStmt(VarExpr("x"), BlockStmt(inner), NoBranch),
                    PrintStmt(VarExpr("x"))>>
      [] k = 3 -> <<LetStmt("y", Lit(1)),
                    IfStmt(Bin(VarExpr("y"), "EQUAL", Lit(1)),
                           BlockStmt(inner),
                           BlockStmt(<<LetStmt("x", Lit(3)), PrintStmt(VarExpr("x"))>>))>>
      [] k = 4 -> <<LetStmt("i", Lit(2)),
                    WhileStmt(VarExpr("i"),
                              BlockStmt(<<BlockStmt(inner),
                                  AssignStmt("i", Bin(VarExpr("i"), "SUB", Lit(1)))>>))>>
      [] k = 5 -> <<AssignStmt("x", Lit(5)), BlockStmt(inner), LetStmt("x", Lit(4)),
                    PrintStmt(VarExpr("x"))>>
Arounds == 1 .. 5

RECURSIVE Nested(_)
Nested(d) ==
    IF d = 0 THEN Innermost
    ELSE Innermost \cup {Around(k, inner) : k \in Arounds, inner \in Nested(d - 1)}

NestedPrograms == Nested(MaxDepth)

Programs ==
    Scenarios \cup PrintPrograms \cup IfPrograms \cup NestedPrograms \cup ArrayPrograms
        \cup IndexPrograms \cup WhilePrograms
        \cup ExitPrograms \cup BinaryPrograms \cup LogicalPrograms \cup LetInitPrograms
        \cup NestedExitPrograms

(***************************************************************************)
(* The specification: a Generator is constructed with a program,           *)
(* generateAssembly runs, and the text is assembled and run in a fresh     *)
(* process.  The label counters are function-local statics: 0 when the     *)
(* compiler starts.                                                        *)
(***************************************************************************)
\* No Tokenizer has been constructed.
NoTokenizer ==
    /\ m_input = <<>>
    /\ position = 0
    /\ tokens = <<>>
    /\ spans = <<>>
    /\ pass = 0
    /\ firstTokens = <<>>
    /\ highClass = "other"

\* Nothing has been generated and no process has been started.
NotStarted ==
    /\ frames = <<>>
    /\ asm = <<>>
    /\ symbolTables = <<>>
    /\ stackOffset = 0
    /\ hasExitStmt = FALSE
    /\ cerr = <<>>
    /\ boundaries = {}
    /\ firstText = <<>>
    /\ ifLabelCounter = 0
    /\ whileLabelCounter = 0
    /\ printCounter = 0
    /\ pc = 1
    /\ reg = [r \in RegNames |-> IF r = "rsp" THEN StackTop ELSE 0]
    /\ flags = [zf |-> FALSE, sf |-> FALSE, lt |-> FALSE]
    /\ mem = [a \in {} |-> 0]
    /\ brk = HeapBase
    /\ out = <<>>
    /\ exitCode = -1
    /\ blockRsp = <<>>
    /\ pushed = <<>>

Init ==
    /\ program \in Programs
    /\ phase = "constructed"
    /\ NotStarted
    /\ m_tokens = <<>>
    /\ m_position = 0
    /\ parsed = NoProgram
    /\ pastEnd = "UNKNOWN"
    /\ oobRead = FALSE
    /\ NoTokenizer

Next ==
    \/ GenerateAssembly
    \/ TopExit
    \/ TopLet
    \/ TopBlock
    \/ TopIf
    \/ TopWhile
    \/ TopPrint
    \/ TopArrayAssign
    \/ TopDefault
    \/ Epilogue
    \/ GenerateAgain
    \/ BlockEnter
    \/ BlkExit
    \/ BlkLet
    \/ BlkBlock
    \/ BlkIf
    \/ BlkWhile
    \/ BlkAssign
    \/ BlkPrint
    \/ BlkArrayAssign
    \/ BlockLeave
    \/ IfElse
    \/ IfEnd
    \/ WhileEnd
    \/ Run
    \/ ExecMove
    \/ ExecStack
    \/ ExecCompare
    \/ ExecDiv
    \/ ExecJump
    \/ ExecBlockMarker
    \/ SysExit
    \/ SysWrite
    \/ SysMmap

Spec == Init /\ [][Next]_vars

\* The processor executes the text without being suspended for ever: while
\* an instruction can be executed, one is.
Execute ==
    \/ ExecMove \/ ExecStack \/ ExecCompare \/ ExecDiv \/ ExecJump \/ ExecBlockMarker
    \/ SysExit \/ SysWrite \/ SysMmap
SpecRun == Spec /\ WF_vars(Execute)

(***************************************************************************)
(* The parser.  m_position counts from 0, as in the code; a production is  *)
(* an operator from the position it is entered at to what it leaves:       *)
(* whether it returned a value, m_position, the node, the lines written to *)
(* std::cerr, and whether a token beyond the last was read.                *)
(***************************************************************************)
Tok(type) == [type |-> type, value |-> ""]
IdTok(name) == [type |-> "IDENTIFIER", value |-> name]
\* The value of an integer token is its lexeme, the digits as written.
IntTok(digits) == [type |-> "INT_LITERAL", value |-> digits]

Size == Len(m_tokens)
\* m_position < m_tokens.size() && m_tokens[m_position].type == type
Is(p, type) == p < Size /\ m_tokens[p + 1].type = type

Ok(p, node, oob) == [ok |-> TRUE, pos |-> p, node |-> node, cerr |-> <<>>, oob |-> oob]
Fail(p, msg, oob) ==
    [ok |-> FALSE, pos |-> p, node |-> NullStmt, cerr |-> <<msg>>, oob |-> oob]
\* return std::nullopt with nothing written.
Silent(p, oob) == [ok |-> FALSE, pos |-> p, node |-> NullStmt, cerr |-> <<>>, oob |-> oob]
\* The result r of a callee, in a caller that has already read beyond the end
\* or not.
Or(r, oob) == [r EXCEPT !.oob = @ \/ oob]

\* What a production does with the result r of the expression it has just
\* parsed when the next token must be of the given type: nothing parsed is
\* passed on, a missing token is reported, the token is consumed.
Expect(r, type, msg) ==
    IF ~r.ok THEN r
    ELSE IF ~Is(r.pos, type) THEN Fail(r.pos, msg, r.oob)
    ELSE [r EXCEPT !.pos = @ + 1]

\* The std::make_shared that ends a production, around the node of r.
MakeShared(kind, x, r) ==
    IF ~r.ok THEN r
    ELSE [r EXCEPT !.node = CASE kind = "EXIT" -> ExitStmt(@)
                              [] kind = "LET" -> LetStmt(x, @)
                              [] kind = "ASSIGN" -> AssignStmt(x, @)
                              [] kind = "PRINT" -> PrintStmt(@)
                              [] kind = "LENGTH" -> LengthExpr(@)
                              [] kind = "ARRAY_ACCESS" -> ArrayAccessExpr(x, @)
                              [] kind = "BLOCK" -> BlockStmt(<<@>>)]

MakeBinary_Swapped(left, op, right) ==
    IF ~right.ok THEN Or(right, left.oob)
    ELSE Ok(right.pos, BinaryExpr(right.node, op, left.node), left.oob \/ right.oob)

\* left = std::make_shared<BinaryExpr>(left, op, right), or nothing when the
\* right operand did not parse.
MakeBinary(left, op, right) ==
    IF ~right.ok THEN Or(right, left.oob)
    ELSE Ok(right.pos, BinaryExpr(left.node, op, right.node), left.oob \/ right.oob)

ComparisonTokens == {"EGAL", "GREAT", "LESS", "GREAT_EQUAL", "LESS_EQUAL", "NEGAL"}
ComparisonOp(type) ==
    CASE type = "EGAL" -> "EQUAL"
      [] type = "GREAT" -> "GREAT"
      [] type = "LESS" -> "LESS"
      [] type = "GREAT_EQUAL" -> "GREAT_EQUAL"
      [] type = "LESS_EQUAL" -> "LESS_EQUAL"
      [] type = "NEGAL" -> "NOT_EQUAL"
MultiplicationTokens == {"STAR", "DIVIDE", "MODULO"}
MultiplicationOp(type) ==
    CASE type = "DIVIDE" -> "DIV"
      [] type = "MODULO" -> "MOD"
      [] type = "STAR" -> "MUL"

RECURSIVE parseExpression(_), parseLogicalConOR(_), LogicalConORLoop(_),
          parseLogicalConAND(_), LogicalConANDLoop(_), parseComparison(_),
          ComparisonLoop(_), parseAddition(_), AdditionLoop(_),
          parseMultiplication(_), MultiplicationLoop(_), parseSemiParenth(_),
          parseArray(_), ArrayLoop(_, _), ArrayNext(_, _)

parseExpression(p) == parseLogicalConOR(p)

\* Each level parses its first operand and enters its while loop with it;
\* the loop is an operator of what has been built so far.
parseLogicalConOR(p) == LogicalConORLoop(parseLogicalConAND(p))

LogicalConORLoop(left) ==
    IF ~left.ok \/ ~Is(left.pos, "OR") THEN left
    ELSE LogicalConORLoop(MakeBinary(left, "OR", parseLogicalConAND(left.pos + 1)))

parseLogicalConAND(p) == LogicalConANDLoop(parseComparison(p))

LogicalConANDLoop(left) ==
    IF ~left.ok \/ ~Is(left.pos, "AND") THEN left
    ELSE LogicalConANDLoop(MakeBinary(left, "AND", parseComparison(left.pos + 1)))

parseComparison(p) == ComparisonLoop(parseAddition(p))

ComparisonLoop(left) ==
    IF ~left.ok \/ ~(left.pos < Size /\ m_tokens[left.pos + 1].type \in ComparisonTokens)
    THEN left
    ELSE ComparisonLoop(MakeBinary(left, ComparisonOp(m_tokens[left.pos + 1].type),
                                   parseAddition(left.pos + 1)))

parseAddition(p) == AdditionLoop(parseMultiplication(p))

\* while (m_position < m_tokens.size() && type == PLUS || type == MINUS):
\* with m_position at the end, the second test reads m_tokens[size].
AdditionLoop(left) ==
    IF ~left.ok THEN left
    ELSE LET inRange == left.pos < Size
             operatorType == IF inRange THEN m_tokens[left.pos + 1].type ELSE pastEnd
         IN IF ~((inRange /\ operatorType = "PLUS") \/ operatorType = "MINUS")
            THEN Or(left, ~inRange)
            ELSE AdditionLoop(MakeBinary(Or(left, ~inRange),
                                         IF operatorType = "MINUS" THEN "SUB" ELSE "ADD",
                                         parseMultiplication(left.pos + 1)))

parseMultiplication(p) == MultiplicationLoop(parseSemiParenth(p))

MultiplicationLoop(left) ==
    IF ~left.ok \/ ~(left.pos < Size /\ m_tokens[left.pos + 1].type \in MultiplicationTokens)
    THEN left
    ELSE MultiplicationLoop(MakeBinary(left, MultiplicationOp(m_tokens[left.pos + 1].type),
                                       parseSemiParenth(left.pos + 1)))

parseSemiParenth(p) ==
    IF Is(p, "LBRACKET") THEN parseArray(p)
    ELSE IF Is(p, "INT_LITERAL") THEN Ok(p + 1, IntExpr(m_tokens[p + 1].value), FALSE)
    ELSE IF Is(p, "IDENTIFIER") THEN
        IF Is(p + 1, "LBRACKET")
        THEN MakeShared("ARRAY_ACCESS", VarExpr(m_tokens[p + 1].value),
                        Expect(parseExpression(p + 2), "RBRACKET",
                               "Erreur: Un ']' est attendu"))
        ELSE Ok(p + 1, VarExpr(m_tokens[p + 1].value), FALSE)
    ELSE IF Is(p, "LENGTH") THEN
        IF ~Is(p + 1, "LPARENTHESIS")
        THEN Fail(p + 1, "Erreur: Un ( est attendu apres len", FALSE)
        ELSE MakeShared("LENGTH", "",
                        Expect(parseExpression(p + 2), "RPARENTHESIS",
                               "Erreur: Un ) est attendu apres l'argument de len()"))
    ELSE IF Is(p, "LPARENTHESIS")
    THEN Expect(parseExpression(p + 1), "RPARENTHESIS", "Erreur: Un ) est attendu")
    ELSE Fail(p, "Erreur: Expression attendue", FALSE)

parseArray(p) ==
    IF ~Is(p, "LBRACKET") THEN Fail(p, "Erreur: Un [ est attendu", FALSE)
    ELSE IF Is(p + 1, "RBRACKET") THEN Ok(p + 2, ArrayExpr(<<>>), FALSE)
    ELSE ArrayLoop(p + 1, Ok(p + 1, <<>>, FALSE))

\* The while (true) loop of parseArray: the next element is parsed at p, all
\* holding the elements so far.
ArrayLoop(p, all) == ArrayNext(all, parseExpression(p))

\* The rest of a turn of that loop, expr being the element parsed.
ArrayNext(all, expr) ==
    IF ~expr.ok THEN Or(expr, all.oob)
    ELSE IF expr.pos >= Size
         THEN Fail(expr.pos,
                   "Erreur: Fin de fichier inattendue dans la declaration du tableau",
                   all.oob \/ expr.oob)
    ELSE IF m_tokens[expr.pos + 1].type = "RBRACKET"
         THEN Ok(expr.pos + 1, ArrayExpr(Append(all.node, expr.node)), all.oob \/ expr.oob)
    ELSE IF m_tokens[expr.pos + 1].type # "COMMA"
         THEN Fail(expr.pos,
                   "Erreur: Une virgule est attendue entre les elements du tableau",
                   all.oob \/ expr.oob)
    ELSE ArrayLoop(expr.pos + 1,
                   Ok(expr.pos + 1, Append(all.node, expr.node), all.oob \/ expr.oob))

\* The statement productions.
RECURSIVE parseStatement(_), parseBlockStmt(_), BlockLoop(_), BlockNext(_, _),
          parseIfStmt(_), IfThen(_), IfElsePart(_, _), parseElseStmt(_),
          parseWhileStmt(_), WhileBody(_)

parseExitStmt(p) ==
    IF ~Is(p, "EXIT") THEN Fail(p, "Erreur: Un EXIT est attendu", FALSE)
    ELSE IF ~Is(p + 1, "LPARENTHESIS")
         THEN Fail(p + 1, "Erreur: Un ( est attendu apres le EXIT", FALSE)
    ELSE MakeShared("EXIT", "",
                    Expect(Expect(parseExpression(p + 2), "RPARENTHESIS",
                                  "Erreur: Un ) est attendu apres l'expression"),
                           "SEMICOLON", "Erreur: Un ; est attendu a la fin de l'instruction"))

parseLetStmt(p) ==
    IF ~Is(p, "LET") THEN Fail(p, "Erreur: Un LET est attendu", FALSE)
    ELSE IF ~Is(p + 1, "IDENTIFIER")
         THEN Fail(p + 1, "Erreur: Un IDENTIFIER est attendu apres le LET", FALSE)
    ELSE IF ~Is(p + 2, "EQUAL")
         THEN Fail(p + 2, "Erreur: Un = est attendu apres le LET", FALSE)
    ELSE MakeShared("LET", m_tokens[p + 2].value,
                    Expect(parseExpression(p + 3), "SEMICOLON",
                           "Erreur: Un ; est attendu a la fin de l'instruction"))

parseAssignStmt(p) ==
    IF ~Is(p, "IDENTIFIER") THEN Fail(p, "Erreur: Un IDENTIFIER est attendu", FALSE)
    ELSE IF ~Is(p + 1, "EQUAL") THEN Fail(p + 1, "Erreur: Un = est attendu avant ", FALSE)
    ELSE MakeShared("ASSIGN", m_tokens[p + 1].value,
                    Expect(parseExpression(p + 2), "SEMICOLON",
                           "Erreur: Un ; est attendu a la fin de l'instruction"))

parsePrintStmt(p) ==
    IF ~Is(p, "PRINT") THEN Fail(p, "Erreur: Un PRINT est attendu", FALSE)
    ELSE IF ~Is(p + 1, "LPARENTHESIS")
         THEN Fail(p + 1, "Erreur: Un ( est attendu apres le PRINT", FALSE)
    ELSE MakeShared("PRINT", "",
                    Expect(Expect(parseExpression(p + 2), "RPARENTHESIS",
                                  "Erreur: Un ) est attendu apres l'expression"),
                           "SEMICOLON", "Erreur: Un ; est attendu a la fin de l'instruction"))

\* parseArrayAssignStmt once the value has been parsed.
ArrayAssignValue(startPos, index, value) ==
    IF ~value.ok THEN [value EXCEPT !.pos = startPos, !.oob = @ \/ index.oob]
    ELSE IF ~Is(value.pos, "SEMICOLON")
         THEN Fail(value.pos, "Erreur: Un ; est attendu apres l'assignation",
                   index.oob \/ value.oob)
    ELSE Ok(value.pos + 1,
            ArrayAssignStmt(VarExpr(m_tokens[startPos + 1].value), index.node, value.node),
            index.oob \/ value.oob)

\* parseArrayAssignStmt once the index has been parsed.  Every return of
\* std::nullopt but the last puts m_position back to startPos and writes
\* nothing.
ArrayAssignIndex(startPos, index) ==
    IF ~index.ok THEN [index EXCEPT !.pos = startPos]
    ELSE IF ~Is(index.pos, "RBRACKET") THEN Silent(startPos, index.oob)
    ELSE IF ~Is(index.pos + 1, "EQUAL") THEN Silent(startPos, index.oob)
    ELSE ArrayAssignValue(startPos, index, parseExpression(index.pos + 2))

parseArrayAssignStmt(p) ==
    IF ~Is(p, "IDENTIFIER") THEN Silent(p, FALSE)
    ELSE IF ~Is(p + 1, "LBRACKET") THEN Silent(p, FALSE)
    ELSE ArrayAssignIndex(p, parseExpression(p + 2))

parseStatement(p) ==
    IF Is(p, "EXIT") THEN parseExitStmt(p)
    ELSE IF Is(p, "LET") THEN parseLetStmt(p)
    ELSE IF Is(p, "LBRACE") THEN parseBlockStmt(p)
    ELSE IF Is(p, "IF") THEN parseIfStmt(p)
    ELSE IF Is(p, "WHILE") THEN parseWhileStmt(p)
    ELSE IF Is(p, "IDENTIFIER") /\ Is(p + 1, "EQUAL") THEN parseAssignStmt(p)
    ELSE IF Is(p, "PRINT") THEN parsePrintStmt(p)
    ELSE IF Is(p, "IDENTIFIER") THEN parseArrayAssignStmt(p)
    ELSE Fail(p, "Erreur: Instruction non reconnue", FALSE)

parseBlockStmt(p) ==
    IF ~Is(p, "LBRACE") THEN Fail(p, "Erreur: Un { est attendu a ", FALSE)
    ELSE BlockLoop(Ok(p + 1, <<>>, FALSE))

\* The while loop of parseBlockStmt and the closing brace, all holding the
\* statements so far.
BlockLoop(all) ==
    IF all.pos < Size /\ m_tokens[all.pos + 1].type # "RBRACE"
    THEN BlockNext(all, parseStatement(all.pos))
    ELSE IF ~Is(all.pos, "RBRACE") THEN Fail(all.pos, "Erreur: Un } est attendu", all.oob)
    ELSE Ok(all.pos + 1, BlockStmt(all.node), all.oob)

\* The rest of a turn of that loop, stmt being the statement parsed.
BlockNext(all, stmt) ==
    IF ~stmt.ok THEN Or(stmt, all.oob)
    ELSE BlockLoop(Ok(stmt.pos, Append(all.node, stmt.node), all.oob \/ stmt.oob))

parseIfStmt(p) ==
    IF ~Is(p, "IF") THEN Fail(p, "Erreur: Un IF est attendu", FALSE)
    ELSE IF ~Is(p + 1, "LPARENTHESIS")
         THEN Fail(p + 1, "Erreur: Un ( est attendu apres le IF", FALSE)
    ELSE IfThen(Expect(parseExpression(p + 2), "RPARENTHESIS",
                       "Erreur: Un ) est attendu apres l'expression"))

\* parseIfStmt once the condition and ) have been parsed.
IfThen(expr) == IF ~expr.ok THEN expr ELSE IfElsePart(expr, parseBlockStmt(expr.pos))

\* parseIfStmt once the else branch has been parsed.
IfWithElse(expr, block, elseStmt) ==
    IF ~elseStmt.ok THEN Or(elseStmt, expr.oob \/ block.oob)
    ELSE Ok(elseStmt.pos, IfStmt(expr.node, block.node, elseStmt.node),
            expr.oob \/ block.oob \/ elseStmt.oob)

\* parseIfStmt once the then block has been parsed.
IfElsePart(expr, block) ==
    IF ~block.ok THEN Or(block, expr.oob)
    ELSE IF Is(block.pos, "ELSE")
         THEN IfWithElse(expr, block, parseElseStmt(block.pos))
    ELSE Ok(block.pos, IfStmt(expr.node, block.node, NoBranch), expr.oob \/ block.oob)

parseElseStmt(p) ==
    IF ~Is(p, "ELSE") THEN Fail(p, "Erreur: Un ELSE est attendu", FALSE)
    ELSE IF Is(p + 1, "IF") THEN MakeShared("BLOCK", "", parseIfStmt(p + 1))
    ELSE parseBlockStmt(p + 1)

parseWhileStmt(p) ==
    IF ~Is(p, "WHILE") THEN Fail(p, "Erreur: Un WHILE est attendu", FALSE)
    ELSE IF ~Is(p + 1, "LPARENTHESIS")
         THEN Fail(p + 1, "Erreur: Un ( est attendu apres le WHILE", FALSE)
    ELSE WhileBody(Expect(parseExpression(p + 2), "RPARENTHESIS",
                          "Erreur: Un ) est attendu apres l'expression"))

\* parseWhileStmt once the body has been parsed.
WhileOf(expr, block) ==
    IF ~block.ok THEN Or(block, expr.oob)
    ELSE Ok(block.pos, WhileStmt(expr.node, block.node), expr.oob \/ block.oob)

\* parseWhileStmt once the condition and ) have been parsed.
WhileBody(expr) == IF ~expr.ok THEN expr ELSE WhileOf(expr, parseBlockStmt(expr.pos))

(***************************************************************************)
(* The token sequences the parser is constructed with: the tokens of small *)
(* programs, and each of them cut short, with one token missing, or with   *)
(* one token replaced.                                                     *)
(***************************************************************************)
\* exit(1);
TokExit == <<Tok("EXIT"), Tok("LPARENTHESIS"), IntTok("1"), Tok("RPARENTHESIS"),
             Tok("SEMICOLON")>>
\* let x = 1 + 2 * 3;
TokLet == <<Tok("LET"), IdTok("x"), Tok("EQUAL"), IntTok("1"), Tok("PLUS"), IntTok("2"),
            Tok("STAR"), IntTok("3"), Tok("SEMICOLON")>>
\* x = x - 1;
TokAssign == <<IdTok("x"), Tok("EQUAL"), IdTok("x"), Tok("MINUS"), IntTok("1"),
               Tok("SEMICOLON")>>
\* x[0] = 5;
TokIndexAssign == <<IdTok("x"), Tok("LBRACKET"), IntTok("0"), Tok("RBRACKET"), Tok("EQUAL"),
                    IntTok("5"), Tok("SEMICOLON")>>
\* print(x[1]);
TokPrint == <<Tok("PRINT"), Tok("LPARENTHESIS"), IdTok("x"), Tok("LBRACKET"), IntTok("1"),
              Tok("RBRACKET"), Tok("RPARENTHESIS"), Tok("SEMICOLON")>>
\* if (x > 1) { exit(0); } else { print(1); }
TokIfElse == <<Tok("IF"), Tok("LPARENTHESIS"), IdTok("x"), Tok("GREAT"), IntTok("1"),
               Tok("RPARENTHESIS"), Tok("LBRACE"), Tok("EXIT"), Tok("LPARENTHESIS"),
               IntTok("0"), Tok("RPARENTHESIS"), Tok("SEMICOLON"), Tok("RBRACE"),
               Tok("ELSE"), Tok("LBRACE"), Tok("PRINT"), Tok("LPARENTHESIS"), IntTok("1"),
               Tok("RPARENTHESIS"), Tok("SEMICOLON"), Tok("RBRACE")>>
\* if (x) { } else if (y) { }
TokElseIf == <<Tok("IF"), Tok("LPARENTHESIS"), IdTok("x"), Tok("RPARENTHESIS"),
               Tok("LBRACE"), Tok("RBRACE"), Tok("ELSE"), Tok("IF"), Tok("LPARENTHESIS"),
               IdTok("y"), Tok("RPARENTHESIS"), Tok("LBRACE"), Tok("RBRACE")>>
\* while (i < 5 && i != 3 || i == 9) { i = i + 1; }
TokWhile == <<Tok("WHILE"), Tok("LPARENTHESIS"), IdTok("i"), Tok("LESS"), IntTok("5"),
              Tok("AND"), IdTok("i"), Tok("NEGAL"), IntTok("3"), Tok("OR"), IdTok("i"),
              Tok("EGAL"), IntTok("9"), Tok("RPARENTHESIS"), Tok("LBRACE"), IdTok("i"),
              Tok("EQUAL"), IdTok("i"), Tok("PLUS"), IntTok("1"), Tok("SEMICOLON"),
              Tok("RBRACE")>>
\* let a = [1, 2]; exit(len(a));
TokArray == <<Tok("LET"), IdTok("a"), Tok("EQUAL"), Tok("LBRACKET"), IntTok("1"),
              Tok("COMMA"), IntTok("2"), Tok("RBRACKET"), Tok("SEMICOLON"), Tok("EXIT"),
              Tok("LPARENTHESIS"), Tok("LENGTH"), Tok("LPARENTHESIS"), IdTok("a"),
              Tok("RPARENTHESIS"), Tok("RPARENTHESIS"), Tok("SEMICOLON")>>
\* { let x = (1 / 2) % 3; }
TokBlock == <<Tok("LBRACE"), Tok("LET"), IdTok("x"), Tok("EQUAL"), Tok("LPARENTHESIS"),
              IntTok("1"), Tok("DIVIDE"), IntTok("2"), Tok("RPARENTHESIS"), Tok("MODULO"),
              IntTok("3"), Tok("SEMICOLON"), Tok("RBRACE")>>

Intruders ==
    {Tok("SEMICOLON"), IdTok("x"), IntTok("1"), Tok("EQUAL"), Tok("LBRACKET"),
     Tok("RBRACKET"), Tok("RPARENTHESIS"), Tok("MINUS"), Tok("RBRACE"), Tok("UNKNOWN")}

Truncations(seq) == {SubSeq(seq, 1, k) : k \in 0 .. Len(seq)}
Deletions(seq) ==
    {SubSeq(seq, 1, i - 1) \o SubSeq(seq, i + 1, Len(seq)) : i \in 1 .. Len(seq)}
Replacements(seq) == {[seq EXCEPT ![i] = t] : i \in 1 .. Len(seq), t \in Intruders}

Edits(seq) == Truncations(seq) \cup Deletions(seq) \cup Replacements(seq)

TokenSequences ==
    Edits(TokExit) \cup Edits(TokLet) \cup Edits(TokAssign) \cup Edits(TokIndexAssign)
        \cup Edits(TokPrint) \cup Edits(TokIfElse) \cup Edits(TokElseIf)
        \cup Edits(TokWhile) \cup Edits(TokArray) \cup Edits(TokBlock)

\* Expressions of at most two operators over the operands a, 2 and c in that
\* order, and the tokens that spell them in exit( ... );
BinaryOps == {"OR", "AND", "EQUAL", "NOT_EQUAL", "GREAT", "LESS", "GREAT_EQUAL",
              "LESS_EQUAL", "ADD", "SUB", "MUL", "DIV", "MOD"}
OperandA == VarExpr("a")
Operand2 == IntExpr("2")
OperandC == VarExpr("c")
Expressions ==
    {OperandA}
        \cup {BinaryExpr(OperandA, op, Operand2) : op \in BinaryOps}
        \cup {BinaryExpr(BinaryExpr(OperandA, op1, Operand2), op2, OperandC) :
                op1 \in BinaryOps, op2 \in BinaryOps}
        \cup {BinaryExpr(OperandA, op1, BinaryExpr(Operand2, op2, OperandC)) :
                op1 \in BinaryOps, op2 \in BinaryOps}

\* The token of an operator.
OperatorToken(op) ==
    Tok(CASE op = "OR" -> "OR"
          [] op = "AND" -> "AND"
          [] op = "EQUAL" -> "EGAL"
          [] op = "NOT_EQUAL" -> "NEGAL"
          [] op = "GREAT" -> "GREAT"
          [] op = "LESS" -> "LESS"
          [] op = "GREAT_EQUAL" -> "GREAT_EQUAL"
          [] op = "LESS_EQUAL" -> "LESS_EQUAL"
          [] op = "ADD" -> "PLUS"
          [] op = "SUB" -> "MINUS"
          [] op = "MUL" -> "STAR"
          [] op = "DIV" -> "DIVIDE"
          [] op = "MOD" -> "MODULO")

\* The level of an expression in the grammar of the language: || is 1, && is
\* 2, the comparisons 3, + and - 4, *, / and % 5, a primary 6.
Level(expr) ==
    IF expr.t # "BINARY" THEN 6
    ELSE CASE expr.op = "OR" -> 1
           [] expr.op = "AND" -> 2
           [] expr.op \in {"EQUAL", "NOT_EQUAL", "GREAT", "LESS", "GREAT_EQUAL",
                           "LESS_EQUAL"} -> 3
           [] expr.op \in {"ADD", "SUB"} -> 4
           [] expr.op \in {"MUL", "DIV", "MOD"} -> 5

Parenthesised(toks) == <<Tok("LPARENTHESIS")>> \o toks \o <<Tok("RPARENTHESIS")>>

\* The tokens that spell expr where the grammar asks for an expression of
\* level atLeast or above, with the parentheses the grammar makes necessary
\* when all = FALSE, and with parentheses around every operation otherwise.
RECURSIVE Spell(_, _, _)
Spell(expr, atLeast, all) ==
    IF expr.t = "VARIABLE" THEN <<IdTok(expr.name)>>
    ELSE IF expr.t = "INTEGER" THEN <<IntTok(expr.value)>>
    ELSE LET toks == Spell(expr.gauche, Level(expr), all)
                        \o <<OperatorToken(expr.op)>>
                        \o Spell(expr.droite, Level(expr) + 1, all)
         IN IF all \/ Level(expr) < atLeast THEN Parenthesised(toks) ELSE toks

ExitOf(toks) ==
    <<Tok("EXIT"), Tok("LPARENTHESIS")>> \o toks \o <<Tok("RPARENTHESIS"), Tok("SEMICOLON")>>

ExpressionSequences ==
    {ExitOf(Spell(expr, 1, all)) : expr \in Expressions, all \in BOOLEAN}

\* What may be found where m_tokens[m_tokens.size()] would be: the value of
\* TokenType::MINUS, or anything else.
PastEndTypes == {"MINUS", "UNKNOWN"}

InitParse ==
    /\ m_tokens \in TokenSequences \cup ExpressionSequences
    /\ m_position = 0
    /\ parsed = NoProgram
    /\ pastEnd \in PastEndTypes
    /\ oobRead = FALSE
    /\ program = <<>>
    /\ phase = "parsing"
    /\ NotStarted
    /\ NoTokenizer

\* parse(): one turn of its loop in which parseStatement returns a statement.
ParseStatement ==
    /\ phase = "parsing"
    /\ m_position < Size
    /\ LET stmt == parseStatement(m_position) IN
        /\ stmt.ok
        /\ program' = Append(program, stmt.node)
        /\ m_position' = stmt.pos
        /\ oobRead' = (oobRead \/ stmt.oob)
    /\ UNCHANGED <<phase, genVars, counters, machVars, m_tokens, parsed, pastEnd, lexVars>>

\* parse(): parseStatement returns nothing, and so does parse.
ParseFails ==
    /\ phase = "parsing"
    /\ m_position < Size
    /\ LET stmt == parseStatement(m_position) IN
        /\ ~stmt.ok
        /\ cerr' = cerr \o stmt.cerr
        /\ m_position' = stmt.pos
        /\ oobRead' = (oobRead \/ stmt.oob)
    /\ parsed' = NoProgram
    /\ phase' = "parseFailed"
    /\ UNCHANGED <<program, frames, asm, symbolTables, stackOffset, hasExitStmt, boundaries, firstText,
                   counters,
                   machVars, m_tokens, pastEnd, lexVars>>

\* parse(): the loop is over and the program is returned.
ParseReturns ==
    /\ phase = "parsing"
    /\ m_position >= Size
    /\ parsed' = Some(program)
    /\ phase' = "parsed"
    /\ UNCHANGED <<program, genVars, counters, machVars, m_tokens, m_position, pastEnd,
                   oobRead, lexVars>>

NextParse ==
    \/ ParseStatement
    \/ ParseFails
    \/ ParseReturns

SpecParse == InitParse /\ [][NextParse]_vars

(***************************************************************************)
(* The tokenizer (Tokenizer::tokenize).  m_input is a sequence of          *)
(* characters, each a string of length one; position counts from 0 as in   *)
(* the code, so the character at position p is m_input[p + 1].  tokenize   *)
(* is const: it is called twice on the same input, and what the first call *)
(* returned is kept.  The driver then hands the tokens to the parser.      *)
(***************************************************************************)
\* Stands for one byte above 0x7F.  The <cctype> tests are handed a char:
\* what they answer for such a byte is not defined, but is the same each time
\* they are asked, as they look the byte up in a table.
HighByte == "^"
Classes == {"space", "alpha", "digit", "other"}

Letters == {"a", "b", "c", "d", "e", "f", "g", "h", "i", "j", "k", "l", "m",
            "n", "o", "p", "q", "r", "s", "t", "u", "v", "w", "x", "y", "z"}
DigitChars == {"0", "1", "2", "3", "4", "5", "6", "7", "8", "9"}

isspace(c) == c \in {" ", "\n", "\t"} \/ (c = HighByte /\ highClass = "space")
isalpha(c) == c \in Letters \/ (c = HighByte /\ highClass = "alpha")
isdigit(c) == c \in DigitChars \/ (c = HighByte /\ highClass = "digit")
isalnum(c) == isalpha(c) \/ isdigit(c)

InputSize == Len(m_input)
At(p) == m_input[p + 1]
\* m_input[p] == c1 && p + 1 < m_input.size() && m_input[p + 1] == c2
Two(p, c1, c2) == At(p) = c1 /\ p + 1 < InputSize /\ At(p + 1) = c2

\* The keywords table of tokenize.
KeywordNames == {"exit", "let", "if", "else", "while", "print", "len"}
keywords(identifier) ==
    CASE identifier = "exit" -> "EXIT"
      [] identifier = "let" -> "LET"
      [] identifier = "if" -> "IF"
      [] identifier = "else" -> "ELSE"
      [] identifier = "while" -> "WHILE"
      [] identifier = "print" -> "PRINT"
      [] identifier = "len" -> "LENGTH"

\* A variant that stops at the first character that is not a letter or _.
RECURSIVE consumeIdentifier_LettersOnly(_, _)
consumeIdentifier_LettersOnly(p, result) ==
    IF p < InputSize /\ (isalpha(At(p)) \/ At(p) = "_")
    THEN consumeIdentifier_LettersOnly(p + 1, result \o At(p))
    ELSE [text |-> result, pos |-> p]

\* consumeIdentifier, entered with result holding what has been read so far:
\* the text and the position after it.
RECURSIVE consumeIdentifier(_, _)
consumeIdentifier(p, result) ==
    IF p < InputSize /\ (isalnum(At(p)) \/ At(p) = "_")
    THEN consumeIdentifier(p + 1, result \o At(p))
    ELSE [text |-> result, pos |-> p]

RECURSIVE consumeNumber(_, _)
consumeNumber(p, result) ==
    IF p < InputSize /\ isdigit(At(p))
    THEN consumeNumber(p + 1, result \o At(p))
    ELSE [text |-> result, pos |-> p]

\* StartNumToken: digits, and an identifier if a letter or _ follows them.
StartNumToken(p) ==
    LET number == consumeNumber(p, "") IN
    IF number.pos < InputSize /\ (isalpha(At(number.pos)) \/ At(number.pos) = "_")
    THEN LET identifier == consumeIdentifier(number.pos, number.text) IN
         [type |-> "IDENTIFIER", value |-> identifier.text, pos |-> identifier.pos]
    ELSE [type |-> "INT_LITERAL", value |-> number.text, pos |-> number.pos]

\* The inner loop of the line comment: up to the newline or the end.
RECURSIVE SkipLine(_)
SkipLine(p) == IF p < InputSize /\ At(p) # "\n" THEN SkipLine(p + 1) ELSE p

\* The inner loop of the block comment: up to the closing */ or the end.
RECURSIVE SkipBlock(_)
SkipBlock(p) == IF p < InputSize /\ ~Two(p, "*", "/") THEN SkipBlock(p + 1) ELSE p

\* The operators of two characters, but for && and ||.
TwoCharTokens == {<<"=", "=", "EGAL">>, <<"!", "=", "NEGAL">>,
                  <<">", "=", "GREAT_EQUAL">>, <<"<", "=", "LESS_EQUAL">>}
\* The tokens of one character.
OneCharType(c) ==
    CASE c = "(" -> "LPARENTHESIS"
      [] c = ")" -> "RPARENTHESIS"
      [] c = ">" -> "GREAT"
      [] c = "<" -> "LESS"
      [] c = "=" -> "EQUAL"
      [] c = "-" -> "MINUS"
      [] c = "+" -> "PLUS"
      [] c = "/" -> "DIVIDE"
      [] c = "%" -> "MODULO"
      [] c = "*" -> "STAR"
      [] c = "{" -> "LBRACE"
      [] c = "}" -> "RBRACE"
      [] c = "[" -> "LBRACKET"
      [] c = "]" -> "RBRACKET"
      [] c = ";" -> "SEMICOLON"
      [] c = "," -> "COMMA"
OneChars == {"(", ")", ">", "<", "=", "-", "+", "/", "%", "*", "{", "}", "[", "]", ";", ","}

\* One turn of the while loop of tokenize is about to start.
LexTurn == phase = "tokenizing" /\ position < InputSize

\* tokens.push_back({type, value}), the cursor moving to the position to.
Push(type, value, to) ==
    /\ tokens' = Append(tokens, [type |-> type, value |-> value])
    /\ spans' = Append(spans, [from |-> position, to |-> to])
    /\ position' = to

LexFrame ==
    UNCHANGED <<program, phase, genVars, counters, machVars, parserVars, m_input, pass,
                firstTokens, highClass>>
LexFrameButCerr ==
    UNCHANGED <<program, phase, frames, asm, symbolTables, stackOffset, hasExitStmt, boundaries,
                firstText,
                counters, machVars, parserVars, m_input, pass, firstTokens, highClass>>

\* The tests of the loop, in the order of the code.
IsLogical(p) == Two(p, "&", "&") \/ Two(p, "|", "|")
IsLineComment(p) == Two(p, "/", "/")
IsBlockComment(p) == Two(p, "/", "*")
IsWord(p) == isalpha(At(p)) \/ At(p) = "_"
IsTwoChar(p) == \E t \in TwoCharTokens : Two(p, t[1], t[2])

LexSpace_Stays ==
    /\ LexTurn
    /\ isspace(At(position))
    /\ UNCHANGED <<position, tokens, spans>>
    /\ LexFrame

\* if (std::isspace(m_input[position]))
LexSpace ==
    /\ LexTurn
    /\ isspace(At(position))
    /\ position' = position + 1
    /\ UNCHANGED <<tokens, spans>>
    /\ LexFrame

\* && and ||
LexLogical ==
    /\ LexTurn
    /\ ~isspace(At(position))
    /\ IsLogical(position)
    /\ Push(IF At(position) = "&" THEN "AND" ELSE "OR",
            At(position) \o At(position), position + 2)
    /\ LexFrame

LexLineComment_EatsNewline ==
    /\ LexTurn
    /\ ~isspace(At(position))
    /\ ~IsLogical(position)
    /\ IsLineComment(position)
    /\ position' = SkipLine(position) + 2
    /\ UNCHANGED <<tokens, spans>>
    /\ LexFrame

\* // up to the end of the line
LexLineComment ==
    /\ LexTurn
    /\ ~isspace(At(position))
    /\ ~IsLogical(position)
    /\ IsLineComment(position)
    /\ position' = SkipLine(position)
    /\ UNCHANGED <<tokens, spans>>
    /\ LexFrame

\* /* up to */; when the end comes first, a line on std::cerr and position++.
LexBlockComment ==
    /\ LexTurn
    /\ ~isspace(At(position))
    /\ ~IsLogical(position)
    /\ IsBlockComment(position)
    /\ LET end == SkipBlock(position + 2) IN
        IF end < InputSize
        THEN /\ position' = end + 2
             /\ cerr' = cerr
        ELSE /\ position' = end + 1
             /\ cerr' = Append(cerr, "Erreur: ferme le multiligne")
    /\ UNCHANGED <<tokens, spans>>
    /\ LexFrameButCerr

\* An identifier or a keyword.
LexWord ==
    /\ LexTurn
    /\ ~isspace(At(position))
    /\ ~IsLogical(position) /\ ~IsLineComment(position) /\ ~IsBlockComment(position)
    /\ IsWord(position)
    /\ LET identifier == consumeIdentifier(position, "") IN
        Push(IF identifier.text \in KeywordNames THEN keywords(identifier.text)
             ELSE "IDENTIFIER",
             identifier.text, identifier.pos)
    /\ LexFrame

\* if (std::isdigit(m_input[position]))
LexNumber ==
    /\ LexTurn
    /\ ~isspace(At(position))
    /\ ~IsLogical(position) /\ ~IsLineComment(position) /\ ~IsBlockComment(position)
    /\ ~IsWord(position)
    /\ isdigit(At(position))
    /\ LET token == StartNumToken(position) IN Push(token.type, token.value, token.pos)
    /\ LexFrame

\* A variant that makes the token of the first character alone.
LexTwoChar_FirstOnly ==
    /\ LexTurn
    /\ ~isspace(At(position))
    /\ ~IsWord(position) /\ ~isdigit(At(position))
    /\ \E t \in TwoCharTokens :
        /\ Two(position, t[1], t[2])
        /\ Push(IF t[1] = "!" THEN "UNKNOWN" ELSE OneCharType(t[1]), t[1], position + 1)
    /\ LexFrame

\* ==, !=, >= and <=
LexTwoChar ==
    /\ LexTurn
    /\ ~isspace(At(position))
    /\ ~IsWord(position) /\ ~isdigit(At(position))
    /\ \E t \in TwoCharTokens :
        /\ Two(position, t[1], t[2])
        /\ Push(t[3], t[1] \o t[2], position + 2)
    /\ LexFrame

\* The tokens of one character; ( and ) are tested before the operators of
\* two characters, which none of them begins.
LexOneChar ==
    /\ LexTurn
    /\ ~isspace(At(position))
    /\ ~IsLogical(position) /\ ~IsLineComment(position) /\ ~IsBlockComment(position)
    /\ ~IsWord(position) /\ ~isdigit(At(position))
    /\ ~IsTwoChar(position)
    /\ At(position) \in OneChars
    /\ Push(OneCharType(At(position)), At(position), position + 1)
    /\ LexFrame

\* A variant that passes over a character no rule knows and makes no token
\* of it.
LexUnknown_Skips ==
    /\ LexTurn
    /\ ~isspace(At(position))
    /\ ~IsLogical(position) /\ ~IsLineComment(position) /\ ~IsBlockComment(position)
    /\ ~IsWord(position) /\ ~isdigit(At(position))
    /\ ~IsTwoChar(position)
    /\ At(position) \notin OneChars
    /\ position' = position + 1
    /\ UNCHANGED <<tokens, spans>>
    /\ LexFrame

\* Anything else is a token UNKNOWN of one character.
LexUnknown ==
    /\ LexTurn
    /\ ~isspace(At(position))
    /\ ~IsLogical(position) /\ ~IsLineComment(position) /\ ~IsBlockComment(position)
    /\ ~IsWord(position) /\ ~isdigit(At(position))
    /\ ~IsTwoChar(position)
    /\ At(position) \notin OneChars
    /\ Push("UNKNOWN", At(position), position + 1)
    /\ LexFrame

\* return tokens; after the first call, the second begins.
LexReturn ==
    /\ phase = "tokenizing"
    /\ position >= InputSize
    /\ IF pass = 1
       THEN /\ firstTokens' = tokens
            /\ pass' = 2
            /\ position' = 0
            /\ tokens' = <<>>
            /\ spans' = <<>>
            /\ phase' = phase
       ELSE /\ phase' = "tokenized"
            /\ UNCHANGED <<firstTokens, pass, position, tokens, spans>>
    /\ UNCHANGED <<program, genVars, counters, machVars, parserVars, m_input, highClass>>

\* main: Parser parser(tokens); parser.parse() begins.
LexHandOver ==
    /\ phase = "tokenized"
    /\ m_tokens' = tokens
    /\ m_position' = 0
    /\ pastEnd' \in PastEndTypes
    /\ phase' = "parsing"
    /\ UNCHANGED <<program, genVars, counters, machVars, parsed, oobRead, lexVars>>

\* The sources: every string of at most MaxSrcLen characters of SrcAlphabet,
\* and some longer ones.
SrcAlphabet == {" ", "\n", "/", "*", "a", "1", "&", HighByte}

RECURSIVE Strings(_)
Strings(n) ==
    IF n = 0 THEN {<<>>}
    ELSE LET shorter == Strings(n - 1) IN
         shorter \cup {Append(s, c) : s \in shorter, c \in SrcAlphabet}

\* Every string of at most n operator characters.
OperatorAlphabet == {"=", "!", "<", ">", "&", "|"}
RECURSIVE OperatorStrings(_)
OperatorStrings(n) ==
    IF n = 0 THEN {<<>>}
    ELSE LET shorter == OperatorStrings(n - 1) IN
         shorter \cup {Append(s, c) : s \in shorter, c \in OperatorAlphabet}

\* Every string of at most n characters of the word if, a digit, _ and a
\* space.
WordAlphabet == {"i", "f", "1", "_", " "}
RECURSIVE WordStrings(_)
WordStrings(n) ==
    IF n = 0 THEN {<<>>}
    ELSE LET shorter == WordStrings(n - 1) IN
         shorter \cup {Append(s, c) : s \in shorter, c \in WordAlphabet}

\* exit1 letx 12ab 007 len print_ _while 9_
SrcRuns == <<"e", "x", "i", "t", "1", " ", "l", "e", "t", "x", " ", "1", "2", "a", "b", " ",
             "0", "0", "7", " ", "l", "e", "n", " ", "p", "r", "i", "n", "t", "_", " ",
             "_", "w", "h", "i", "l", "e", " ", "9", "_">>
SrcCommentedOps == <<"!", "/", "*", "=", "=", "*", "/", "!", "=", "&", "&", "&">>
SrcLen == <<"e", "x", "i", "t", "(", "l", "e", "n", "(", "a", ")", ")", ";">>
SrcLength ==
    <<"e", "x", "i", "t", "(", "l", "e", "n", "g", "t", "h", "(", "a", ")", ")", ";">>
SrcLetLength ==
    <<"l", "e", "t", " ", "n", "=", "l", "e", "n", "g", "t", "h", "(", "a", ")", ";">>
SrcLineComment == <<"a", "/", "/", "b", " ", "/", "*", "\n", "c", "=", "=", "1">>
SrcBlockComment == <<"a", "/", "*", "b", "*", "*", "/", "c", "*", "/", "!", "=", "2">>
SrcUnterminated == <<"x", "/", "*", "/", " ", "y", "\n", "z", "*">>
SrcLone == <<"/", " ", "&", " ", "|", " ", "!", " ", "#", " ", "|", "|", "&", "&">>
SrcOperators == <<"(", ")", ">", "<", "=", "-", "+", "/", "%", "*", "{", "}", "[",
                  "]", ";", ",", ">", "=", "<", "=">>
SrcWords == <<"1", "a", "_", " ", "_", "1", " ", "i", "f", " ", "e", "l", "s", "e",
              " ", "w", "h", "i", "l", "e", " ", "p", "r", "i", "n", "t", " ", "1",
              "2">>
SrcTruncated == <<"e", "x", "i", "t", "(", "1">>
ScenarioSources ==
    {SrcLen, SrcLength, SrcLetLength, SrcLineComment, SrcBlockComment, SrcUnterminated,
     SrcLone, SrcOperators, SrcWords, SrcTruncated, SrcCommentedOps, SrcRuns}
Sources == Strings(MaxSrcLen) \cup OperatorStrings(MaxOpLen)
        \cup WordStrings(MaxWordLen) \cup ScenarioSources

InitLex ==
    /\ m_input \in Sources
    /\ highClass \in (IF \E i \in 1 .. Len(m_input) : m_input[i] = HighByte
                      THEN Classes ELSE {"other"})
    /\ position = 0
    /\ tokens = <<>>
    /\ spans = <<>>
    /\ pass = 1
    /\ firstTokens = <<>>
    /\ m_tokens = <<>>
    /\ m_position = 0
    /\ parsed = NoProgram
    /\ pastEnd = "UNKNOWN"
    /\ oobRead = FALSE
    /\ program = <<>>
    /\ phase = "tokenizing"
    /\ NotStarted

\* A step of tokenize.
Tokenize ==
    \/ LexSpace
    \/ LexLogical
    \/ LexLineComment
    \/ LexBlockComment
    \/ LexWord
    \/ LexNumber
    \/ LexTwoChar
    \/ LexOneChar
    \/ LexUnknown
    \/ LexReturn

NextLex ==
    \/ Tokenize
    \/ LexHandOver
    \/ ParseStatement
    \/ ParseFails
    \/ ParseReturns

SpecLex == InitLex /\ [][NextLex]_vars

\* tokenize runs in a single thread that nothing suspends: while a step of
\* it can be taken, one is taken.
SpecLexLive == SpecLex /\ WF_vars(Tokenize)

(***************************************************************************)
(* Properties.                                                             *)
(***************************************************************************)
\* The generator is about to handle a statement of type t, in the loop of
\* generateAssembly or of generateBlockCode.
AtStmt(t) == (AtTop \/ AtBlk) /\ CurStmt.t = t

\* The lines a step appends to the text.
Appended == SubSeq(asm', Len(asm) + 1, Len(asm'))
Extends == Len(asm') >= Len(asm) /\ SubSeq(asm', 1, Len(asm)) = asm

\* The text is complete.
Generated == phase \in {"emitted", "running", "exited", "fault"}

\* The decimal representation of an integer followed by a newline, as bytes.
RECURSIVE Digits(_)
Digits(n) == IF n < 10 THEN <<48 + n>> ELSE Digits(n \div 10) \o <<48 + (n % 10)>>
DecimalLine(v) == (IF v < 0 THEN <<45>> \o Digits(0 - v) ELSE Digits(v)) \o <<10>>

\* The value of a literal or of a negated literal.
ValueOf(e) == IF e.t = "INTEGER" THEN e.value ELSE 0 - e.droite.value

\* C1: an if with an else runs exactly one of its two blocks: in the text
\* the else label is preceded by a jump to the end label of the same if, and
\* the program let n = c; if (n > t) { print(n); } else { print(0); } exit(0);
\* writes the line of n alone when c > t and the line of 0 alone otherwise
\* (7 and 5: only "7\n").
IfElseCases == {<<c, t>> : c \in 0 .. MaxLit, t \in 0 .. MaxLit} \cup {<<7, 5>>}
C1_ExactlyOneBranch ==
    /\ Generated =>
         \A i \in 2 .. Len(asm) :
            (asm[i].op = "label" /\ asm[i].a.r = "if_else")
                => asm[i - 1] = Ins("jmp", Lbl("if_end", asm[i].a.n), None)
    /\ \A ct \in IfElseCases :
         (program = ProgIfElse(ct[1], ct[2]) /\ phase = "exited")
            => out = DecimalLine(IF ct[1] > ct[2] THEN ct[1] ELSE 0)

\* C2: an assignment to a bound name, at top level or in a block, appends
\* the code of the expression and a store of rax to [rbp - offset], offset
\* being that of the innermost scope binding the name; and
\* let x = 1; x = 2; exit(x); exits with 2.
C2_AssignStores ==
    /\ [][(AtStmt("ASSIGN") /\ findVariableOffset(CurStmt.var, symbolTables).has)
            => asm' = asm \o generateExpressionCode(CurStmt.expr, symbolTables)
                          \o <<Ins("mov",
                                   Mem("rbp", 0 - findVariableOffset(CurStmt.var,
                                                                     symbolTables).value),
                                   rax)>>]_vars
    /\ []((program = ProgAssign /\ phase = "exited") => exitCode = 2)

\* C3: an indexed assignment, at top level or in a block, appends: the
\* value, push; the base, push; the index; rax = (index + 1) * 8; pop the
\* base into rbx and add; pop the value; store it at [rbx].  None is dropped.
C3_IndexAssignStores ==
    [][AtStmt("ARRAY_ASSIGN")
        => asm' = asm \o generateExpressionCode(CurStmt.value, symbolTables)
                      \o <<Ins("push", rax, None)>>
                      \o generateExpressionCode(CurStmt.array, symbolTables)
                      \o <<Ins("push", rax, None)>>
                      \o generateExpressionCode(CurStmt.index, symbolTables)
                      \o <<Ins("add", rax, Imm(1)), Ins("imul", rax, Imm(8)),
                           Ins("pop", rbx, None), Ins("add", rbx, rax),
                           Ins("pop", rax, None), Ins("mov", Mem("rbx", 0), rax)>>]_vars

\* C4: print(e) writes the decimal representation of the value of e and a
\* newline, a negative value as '-' followed by the digits of its magnitude;
\* the bytes written are exactly those characters.
C4_PrintDecimal ==
    \A e \in PrintExprs :
        (program = <<PrintStmt(e)>> /\ phase = "exited") => out = DecimalLine(ValueOf(e))

\* generateBlockCode is past the last statement of its block.
LeavingBlock ==
    /\ phase = "generating"
    /\ frames # <<>>
    /\ Top.fn = "generateBlockCode"
    /\ Top.stage = "body"
    /\ Top.i > Len(Top.stmts)

\* The names declared by the let statements directly in a statement list.
DirectLets(stmts) == {stmts[i].var : i \in {j \in 1 .. Len(stmts) : stmts[j].t = "LET"}}

\* The amount of the add rsp at the head of some lines, 0 when there is none.
RspReleased(lines) ==
    IF Len(lines) > 0 /\ lines[1].op = "add" /\ lines[1].a = rsp THEN lines[1].b.n ELSE 0

\* C5: when a block, at any depth, has been generated, stackOffset and the
\* scope stack are what they were before the block, and the add rsp emitted
\* releases 8 bytes for each slot allocated by a let directly in the block;
\* when the program runs, rsp at the end of a block is what it was at its
\* beginning.
C5_BlockRestores ==
    /\ [][LeavingBlock
            => /\ stackOffset' = Top.entry.stackOffset
               /\ symbolTables' = Top.entry.symbolTables
               /\ Extends
               /\ RspReleased(Appended) = 8 * Cardinality(DirectLets(Top.stmts))
               /\ asm'[Len(asm')] = BlockEnd]_vars
    /\ []((Running /\ Cur = BlockEnd) => reg["rsp"] = Head(blockRsp))

\* A block nested in another, with a slot of its own, is at its end in the
\* running program, its rsp restored.
C5_NestedBlockEnds ==
    /\ Running
    /\ Cur = BlockEnd
    /\ Len(blockRsp) >= 2
    /\ asm[pc - 1] = Ins("add", rsp, Imm(8))
    /\ reg["rsp"] = Head(blockRsp)

\* C6: in one text every label is defined at most once, and the three label
\* counters never decrease.
C6_LabelsUnique ==
    /\ [](phase = "emitted" =>
            \A i \in 1 .. Len(asm) : \A j \in (i + 1) .. Len(asm) :
                asm[i].op = "label" => asm[i] # asm[j])
    /\ [][/\ ifLabelCounter' >= ifLabelCounter
          /\ whileLabelCounter' >= whileLabelCounter
          /\ printCounter' >= printCounter]_vars

\* A text with several ifs, several prints and a while.
C6_SeveralLabels ==
    /\ phase = "emitted"
    /\ ifLabelCounter >= 2
    /\ printCounter >= 2
    /\ whileLabelCounter >= 1
    /\ \E i \in 1 .. Len(asm) : asm[i] = Label("if_end", 1)

\* C7: whenever parse() fails, the parser has written exactly one line to
\* std::cerr and has returned no Program; so it is for a statement that
\* begins with an identifier followed neither by = nor by a well-formed
\* [ expr ] =.
C7_OneDiagnostic == phase = "parseFailed" => Len(cerr) = 1 /\ ~parsed.has

\* C8: let binds the name in the innermost scope only.  A name the innermost
\* scope does not bind gets a new slot, stackOffset + 8 with one sub rsp, 8,
\* whether or not an enclosing scope binds it; a name it binds keeps its
\* slot, and nothing is allocated.  The enclosing scopes are unchanged.
\* let x = 1; { let x = 2; exit(x); } exits with 2, and after the block the
\* name is the outer slot again: let x = 1; { let x = 2; } exit(x); exits
\* with 1.
C8_LetInnermost ==
    /\ [][AtStmt("LET")
            => LET name == CurStmt.var
                   last == Len(symbolTables)
                   subs == {i \in 1 .. Len(Appended) : Appended[i] = Ins("sub", rsp, Imm(8))}
               IN /\ Len(symbolTables') = last
                  /\ \A k \in 1 .. (last - 1) : symbolTables'[k] = symbolTables[k]
                  /\ Extends
                  /\ IF name \in DOMAIN symbolTables[last]
                     THEN /\ symbolTables' = symbolTables
                          /\ stackOffset' = stackOffset
                          /\ subs = {}
                     ELSE /\ stackOffset' = stackOffset + 8
                          /\ DOMAIN symbolTables'[last] = DOMAIN symbolTables[last] \cup {name}
                          /\ symbolTables'[last][name] = stackOffset + 8
                          /\ \A v \in DOMAIN symbolTables[last] :
                                symbolTables'[last][v] = symbolTables[last][v]
                          /\ Cardinality(subs) = 1
                  /\ Appended[Len(Appended)]
                        = Ins("mov", Mem("rbp", 0 - symbolTables'[last][name]), rax)]_vars
    /\ []((program = ProgShadow /\ phase = "exited") => exitCode = 2)
    /\ []((program = ProgShadowEnds /\ phase = "exited") => exitCode = 1)

\* A name is bound in the innermost scope to a slot of its own while an
\* enclosing scope binds it too.
C8_Shadowed ==
    /\ phase = "generating"
    /\ Len(symbolTables) >= 2
    /\ \E name \in DOMAIN symbolTables[Len(symbolTables)] :
         \E k \in 1 .. (Len(symbolTables) - 1) :
            /\ name \in DOMAIN symbolTables[k]
            /\ symbolTables[k][name] < symbolTables[Len(symbolTables)][name]
            /\ asm[Len(asm)]
                 = Ins("mov", Mem("rbp", 0 - symbolTables[Len(symbolTables)][name]), rax)
            /\ asm[Len(asm) - 1] = Ins("sub", rsp, Imm(8))

\* C9: a variable or an assignment naming an identifier no scope binds does
\* not stop the generation, and is recorded in the text as a comment: for a
\* variable, a comment and mov rax, 0; for an assignment, a comment and no
\* store.
C9_UnresolvedInText ==
    /\ [][(AtStmt("ASSIGN") /\ ~findVariableOffset(CurStmt.var, symbolTables).has)
            => /\ phase' = "generating"
               /\ Extends
               /\ Len(Appended) = 1
               /\ Appended[1].op = "comment"]_vars
    /\ [](phase = "generating" =>
            \A name \in {"x", "z"} :
                ~findVariableOffset(name, symbolTables).has =>
                    LET code == generateExpressionCode(VarExpr(name), symbolTables) IN
                    /\ Len(code) = 2
                    /\ code[1].op = "comment"
                    /\ code[2] = Ins("mov", rax, Imm(0)))

\* The top-level statements include an exit.
HasTopExit == \E i \in 1 .. Len(program) : program[i].t = "EXIT"

\* The text ends with the default exit sequence.
EndsWithDefaultExit ==
    /\ Len(asm) >= Len(DefaultExit)
    /\ SubSeq(asm, Len(asm) - Len(DefaultExit) + 1, Len(asm)) = DefaultExit

\* C10: the text ends with the default exit(0) sequence exactly when no
\* top-level statement is an exit; an exit inside a block, an if or a while
\* does not count; the empty program gives the prologue and that sequence.
C10_DefaultExit ==
    Generated =>
        /\ EndsWithDefaultExit <=> ~HasTopExit
        /\ program = <<>> => asm = Prologue \o DefaultExit

\* A program whose only exit is inside a block has been generated, and the
\* default exit follows the code of the block.
C10_NestedExitOnly ==
    /\ phase = "emitted"
    /\ program = ProgShadow
    /\ EndsWithDefaultExit
    /\ \E i \in 1 .. Len(asm) - Len(DefaultExit) :
         asm[i] = Ins("mov", rax, Imm(60)) /\ asm[i + 1] = Ins("syscall", None, None)

\* C11: tokenize terminates on every source, its cursor moves forward in
\* every turn of its loop, and a second call on the same source returns the
\* same tokens; so it is for a source that ends in a line comment, in a block
\* comment never closed, after a lone /, &, | or !, or that holds bytes no
\* token begins with.
C11_TokenizeTerminates ==
    /\ [][LexTurn => position' > position]_vars
    /\ <>(phase # "tokenizing")
    /\ [](phase = "tokenized" => tokens = firstTokens)

\* Both calls have returned on a source whose block comment is never closed:
\* the cursor has gone beyond the end and the calls agree.
C11_UnterminatedDone ==
    /\ phase = "tokenized"
    /\ m_input = SrcUnterminated
    /\ position > InputSize
    /\ Len(cerr) = 2
    /\ Len(tokens) = 1
    /\ tokens = firstTokens

\* The positions of m_input that lie in a comment, from position p on, by the
\* rules of the language: a comment opens at // or /* outside a comment; a
\* line comment ends before the next newline; a block comment ends after the
\* first */ that follows its opening, or with the source.
RECURSIVE CommentPositions(_, _)
CommentPositions(p, mode) ==
    IF p >= InputSize THEN {}
    ELSE CASE mode = "code" ->
                IF Two(p, "/", "/") THEN {p, p + 1} \cup CommentPositions(p + 2, "line")
                ELSE IF Two(p, "/", "*")
                     THEN {p, p + 1} \cup CommentPositions(p + 2, "block")
                ELSE CommentPositions(p + 1, "code")
           [] mode = "line" ->
                IF At(p) = "\n" THEN CommentPositions(p, "code")
                ELSE {p} \cup CommentPositions(p + 1, "line")
           [] mode = "block" ->
                IF Two(p, "*", "/") THEN {p, p + 1} \cup CommentPositions(p + 2, "code")
                ELSE {p} \cup CommentPositions(p + 1, "block")

\* The characters of m_input from position from up to, not including, to.
RECURSIVE SourceText(_, _)
SourceText(from, to) ==
    IF from >= to THEN "" ELSE At(from) \o SourceText(from + 1, to)

\* The positions the tokens read so far were made of.
Tokenized == UNION {spans[k].from .. (spans[k].to - 1) : k \in 1 .. Len(spans)}

\* C12: no token is made of whitespace or comes from inside a comment: each
\* token is a piece of the source, none of whose characters is whitespace or
\* lies in a // or /* */ comment; and a comment takes no more than its own
\* text: to the newline for a line comment, to the first */ for a block
\* comment, to the end when it is never closed, so that every other
\* character that is not whitespace is part of a token.
C12_NoCommentTokens ==
    phase \in {"tokenizing", "tokenized"} =>
        /\ Len(spans) = Len(tokens)
        /\ \A k \in 1 .. Len(tokens) :
            /\ spans[k].from < spans[k].to
            /\ spans[k].to <= InputSize
            /\ tokens[k].value = SourceText(spans[k].from, spans[k].to)
            /\ \A q \in spans[k].from .. (spans[k].to - 1) :
                /\ ~isspace(At(q))
                /\ q \notin CommentPositions(0, "code")
        /\ phase = "tokenized" =>
            \A q \in 0 .. (InputSize - 1) :
                q \in Tokenized \/ isspace(At(q)) \/ q \in CommentPositions(0, "code")

\* A source with a block comment that holds a * before its closing */ and is
\* followed by another */ has been tokenized.
C12_CommentSkipped ==
    /\ phase = "tokenized"
    /\ m_input = SrcBlockComment
    /\ Len(tokens) = 6
    /\ tokens[2] = [type |-> "IDENTIFIER", value |-> "c"]
    /\ tokens[3].type = "STAR"
    /\ tokens[5].type = "NEGAL"

\* C13: the parser builds the tree the grammar gives: || binds loosest, then
\* &&, then the comparisons, then + and -, then *, / and %; operators of one
\* level group to the left; an expression in parentheses is one primary.  The
\* tokens that spell an expression by that grammar, with the parentheses it
\* makes necessary or with all of them, parse to that very expression.
C13_GrammarTree ==
    phase \in {"parsed", "parseFailed"} =>
        \A expr \in Expressions : \A all \in BOOLEAN :
            m_tokens = ExitOf(Spell(expr, 1, all)) =>
                /\ phase = "parsed"
                /\ parsed = Some(<<ExitStmt(expr)>>)

\* exit(a - 2 - c); has been parsed, to (a - 2) - c.
C13_LeftGrouping ==
    /\ phase = "parsed"
    /\ m_tokens = ExitOf(<<IdTok("a"), Tok("MINUS"), IntTok("2"), Tok("MINUS"),
                          IdTok("c")>>)
    /\ parsed.value[1].expr.gauche.t = "BINARY"
    /\ parsed.value[1].expr.droite = OperandC

\* The value the language gives an operation on two signed values: the
\* arithmetic of the machine word, 1 or 0 for a comparison.
RefBinary(op, l, r) ==
    CASE op = "ADD" -> Signed(W(l + r))
      [] op = "SUB" -> Signed(W(l - r))
      [] op = "MUL" -> Signed(W(l * r))
      [] op = "EQUAL" -> IF l = r THEN 1 ELSE 0
      [] op = "NOT_EQUAL" -> IF l # r THEN 1 ELSE 0
      [] op = "LESS" -> IF l < r THEN 1 ELSE 0
      [] op = "GREAT" -> IF l > r THEN 1 ELSE 0
      [] op = "LESS_EQUAL" -> IF l <= r THEN 1 ELSE 0
      [] op = "GREAT_EQUAL" -> IF l >= r THEN 1 ELSE 0

\* The value of an expression made of literals and those operations.
RECURSIVE Eval(_)
Eval(e) ==
    IF e.t = "INTEGER" THEN e.value
    ELSE RefBinary(e.op, Eval(e.gauche), Eval(e.droite))

\* The bytes mmap is asked for by an array literal and the literals in it.
RECURSIVE ArrayBytes(_)
RECURSIVE ElementBytes(_, _)
ElementBytes(elements, i) ==
    IF i > Len(elements) THEN 0
    ELSE ArrayBytes(elements[i]) + ElementBytes(elements, i + 1)
ArrayBytes(e) ==
    IF e.t # "ARRAY" THEN 0 ELSE (Len(e.elements) + 1) * 8 + ElementBytes(e.elements, 1)

\* Memory at base holds the array literal e: its element count in slot 0,
\* and in slot i the value of the i-th element, the address of such an array
\* in its turn when the element is an array literal.
RECURSIVE ArrayAt(_, _)
ArrayAt(base, e) ==
    /\ base >= HeapBase
    /\ base + (Len(e.elements) + 1) * 8 <= brk
    /\ Load(base) = Len(e.elements)
    /\ \A i \in 1 .. Len(e.elements) :
        IF e.elements[i].t = "ARRAY"
        THEN /\ Load(base + 8 * i) # base
             /\ ArrayAt(Load(base + 8 * i), e.elements[i])
        ELSE Load(base + 8 * i) = W(Eval(e.elements[i]))

\* C14: an array literal of n elements asks mmap for (n + 1) * 8 bytes,
\* stores n in slot 0 and the value of element i in slot i + 1, also when the
\* code of an element uses rbx or the element is an array literal, and its
\* value is the address of slot 0: after let a = [...]; the variable a holds
\* the address mmap returned and memory there holds the array.  exit(len([]))
\* allocates one slot holding 0 and exits with 0.
C14_ArrayLayout ==
    phase = "exited" =>
        /\ program \in ArrayPrograms =>
            LET literal == program[1].expr
                a == Load(W(reg["rbp"] - 8))
            IN /\ a = HeapBase
               /\ ArrayAt(a, literal)
               /\ brk = HeapBase + ArrayBytes(literal)
        /\ program = ProgEmptyArray =>
            /\ reg["rdi"] = 0
            /\ brk = HeapBase + 8
            /\ Load(HeapBase) = 0

\* let a = [[4], 7 - 9, 2 + 3]; exit(0); has run to its end.
C14_NestedArrayBuilt ==
    /\ phase = "exited"
    /\ program = ProgArrayLiteral(<<ArrayExpr(<<Lit(4)>>), Bin(Lit(7), "SUB", Lit(9)),
                                   Bin(Lit(2), "ADD", Lit(3))>>)
    /\ brk = HeapBase + 48
    /\ Load(HeapBase + 16) = W(-2)
    /\ Load(Load(HeapBase + 8) + 8) = 4

\* C15: for an array a of n elements and indices i and j below n, after
\* a[i] = v the expression a[i] is v, a[j] for j # i is what it was and len(a)
\* is n still, the assignment and the read addressing the same slot:
\* let a = [10, 20, 30]; a[i] = v; exit(a[j]); passes v to exit when j = i and
\* the j-th of 10, 20, 30 otherwise, exit(len(a)) passes 3, and
\* let a = [10, 20, 30]; exit(a[1]); exits with 20.
C15_IndexRoundTrip ==
    phase = "exited" =>
        /\ \A inBlock \in BOOLEAN, i \in 0 .. 2, v \in {0, 5}, j \in 0 .. 3 :
            program = ProgIndex(inBlock, i, v, j) =>
                reg["rdi"] = IF j = 3 THEN 3 ELSE IF j = i THEN v ELSE IndexValues[j + 1]
        /\ program = ProgArray => exitCode = 20

\* The lines of from, from + 1, ..., to, and of from, from - 1, ..., to.
RECURSIVE LinesUp(_, _)
LinesUp(from, to) ==
    IF from > to THEN <<>> ELSE DecimalLine(from) \o LinesUp(from + 1, to)
RECURSIVE LinesDown(_, _)
LinesDown(from, to) ==
    IF from < to THEN <<>> ELSE DecimalLine(from) \o LinesDown(from - 1, to)

\* C16: a while evaluates its condition before every turn, with the values
\* the turns before have stored, runs its body as long as the condition is
\* not 0, not at all when it is 0 at first, and goes on after the loop then:
\* let i = a; while (i < b) { print(i); i = i + 1; } exit(i); writes the lines
\* of a, ..., b - 1 and passes the larger of a and b to exit;
\* let i = a; while (i) { i = i - 1; print(i); } exit(i); writes the lines of
\* a - 1, ..., 0 and passes 0; neither stops otherwise; and
\* let i = 0; while (i < 5) { i = i + 1; } exit(i); exits with 5.
C16_WhileRuns ==
    /\ program \in WhilePrograms => phase # "fault"
    /\ phase = "exited" =>
        /\ \A a \in WhileBounds, b \in WhileBounds :
            program = ProgCountUp(a, b) =>
                /\ out = LinesUp(a, b - 1)
                /\ reg["rdi"] = IF a > b THEN a ELSE b
        /\ \A a \in WhileBounds :
            program = ProgCountDown(a) =>
                /\ out = LinesDown(a - 1, 0)
                /\ reg["rdi"] = 0
        /\ program = ProgWhile => exitCode = 5

\* Loops of several turns and of none have run: 1, 2 counted up to 3, and
\* nothing counted from 2 up to 1.
C16_LoopsDone ==
    /\ phase = "exited"
    /\ \/ program = ProgCountUp(1, 3) /\ out = <<49, 10, 50, 10>> /\ exitCode = 3
       \/ program = ProgWhile /\ exitCode = 5

\* C17: exit(e), at the top level or inside blocks, ifs, elses and whiles
\* nested in each other, ends the run with the value of e in rdi at syscall
\* 60, the exit status being its low byte, and the statements after it, at
\* its own level and at every level around it, neither print nor store nor
\* change the status.  exit(42); and let x = 10; let y = 32; exit(x + y);
\* exit with 42.
C17_ExitEnds ==
    /\ program \in ExitPrograms => phase # "fault"
    /\ phase = "exited" =>
        /\ reg["rax"] = 60
        /\ exitCode = reg["rdi"] % 256
        /\ \A depth \in 0 .. MaxDepth, kind \in ExitKinds, e \in ExitExprs :
            program = ProgExitAt(depth, kind, e) =>
                /\ reg["rdi"] = W(ExitValue(e))
                /\ out = <<>>
                /\ Load(W(reg["rbp"] - 8)) = 10
        /\ program \in {ProgExit, ProgLet} => exitCode = 42

\* exit(x - y); three whiles deep has ended the run with -22.
C17_DeepExit ==
    /\ phase = "exited"
    /\ program = ProgExitAt(MaxDepth, 4, Bin(VarExpr("x"), "SUB", VarExpr("y")))
    /\ Signed(reg["rdi"]) = -22
    /\ exitCode = 234

\* C18: the length of an array is written length(arr): the word length
\* becomes the LENGTH keyword token, and exit(length(a)); and
\* let n=length(a); parse to an exit and a declaration of the Length
\* expression of the variable a.
C18_LengthWord ==
    /\ phase = "tokenized" /\ m_input \in {SrcLength, SrcLetLength} =>
        \E i \in 1 .. Len(tokens) : tokens[i] = [type |-> "LENGTH", value |-> "length"]
    /\ phase \in {"parsed", "parseFailed"} /\ m_input = SrcLength =>
        /\ phase = "parsed"
        /\ parsed = Some(<<ExitStmt(LengthExpr(VarExpr("a")))>>)
    /\ phase \in {"parsed", "parseFailed"} /\ m_input = SrcLetLength =>
        /\ phase = "parsed"
        /\ parsed = Some(<<LetStmt("n", LengthExpr(VarExpr("a")))>>)

\* C19: while it parses a token sequence, whole or cut short anywhere, the
\* parser reads no token at an index at or past the number of tokens, and
\* its position never passes that number.
C19_NoReadPastEnd ==
    /\ ~oobRead
    /\ phase \in {"parsing", "parsed", "parseFailed"} => m_position <= Size

\* The quotient and the remainder of signed division, rounding to zero.
Magnitude(x) == IF x < 0 THEN -x ELSE x
SignedQuotient(l, r) ==
    IF (l < 0) = (r < 0) THEN Magnitude(l) \div Magnitude(r)
    ELSE -(Magnitude(l) \div Magnitude(r))
SignedRemainder(l, r) == l - r * SignedQuotient(l, r)

\* The word the claim's operation leaves for the signed values l and r, the
\* quotient and remainder taken as given.
WordOf(op, l, r, quotient, remainder) ==
    CASE op = "DIV" -> W(quotient)
      [] op = "MOD" -> W(remainder)
      [] OTHER -> W(RefBinary(op, l, r))

\* The operation of exit(l op r); and the values of its operands.
TheBinary == program[1].expr
IsBinaryProgram == program \in BinaryPrograms \ {ProgArrayDifference}
ByZero(e) == e.op \in {"DIV", "MOD"} /\ Eval(e.droite) = 0

Bit(v, i) == (v \div 2 ^ i) % 2
RECURSIVE BitsFrom(_, _, _, _)
BitsFrom(op, x, y, i) ==
    IF i = WordBits THEN 0
    ELSE (IF op = "AND" THEN Bit(x, i) * Bit(y, i)
          ELSE Bit(x, i) + Bit(y, i) - Bit(x, i) * Bit(y, i)) * 2 ^ i
         + BitsFrom(op, x, y, i + 1)

\* C21: l && r and l || r evaluate both operands, whatever the value of the
\* other, and leave the bitwise and / the bitwise or of the two words in
\* rax, neither 1 nor 0 in place of it: 2 && 1 is 0, 2 || 1 is 3, and
\* len([]) && len([7]), len([]) || len([7]) allocate both arrays.
C21_BitwiseLogical ==
    /\ program \in LogicalPrograms => phase # "fault"
    /\ phase = "exited" =>
        /\ \A op \in LogicalOps :
            /\ program \in {ProgBinary(l, op, r) : l \in BinaryOperands, r \in BinaryOperands} =>
                reg["rdi"] = BitsFrom(op, W(Eval(TheBinary.gauche)), W(Eval(TheBinary.droite)), 0)
            /\ program = ProgLogicalArrays(op) =>
                /\ brk = HeapBase + 24
                /\ reg["rdi"] = IF op = "AND" THEN 0 ELSE 1
        /\ program = ProgBinary(Lit(2), "AND", Lit(1)) => reg["rdi"] = 0
        /\ program = ProgBinary(Lit(2), "OR", Lit(1)) => reg["rdi"] = 3

\* exit(2 || 1); has left 3.
C21_TwoOrOne ==
    /\ phase = "exited"
    /\ program = ProgBinary(Lit(2), "OR", Lit(1))
    /\ reg["rdi"] = 3
    /\ exitCode = 3

\* The operators of two characters of the language and their tokens, and the
\* tokens of their first characters standing alone.
DigraphType(c, d) ==
    CASE c = "=" /\ d = "=" -> "EGAL"
      [] c = "!" /\ d = "=" -> "NEGAL"
      [] c = "<" /\ d = "=" -> "LESS_EQUAL"
      [] c = ">" /\ d = "=" -> "GREAT_EQUAL"
      [] c = "&" /\ d = "&" -> "AND"
      [] c = "|" /\ d = "|" -> "OR"
      [] OTHER -> "NONE"
LoneType(c) ==
    CASE c = "=" -> "EQUAL"
      [] c = "<" -> "LESS"
      [] c = ">" -> "GREAT"
      [] c \in {"!", "&", "|"} -> "UNKNOWN"
      [] OTHER -> "NONE"
\* The token that begins at position p of the source.
DigraphAt(p) == IF p + 1 < InputSize THEN DigraphType(At(p), At(p + 1)) ELSE "NONE"
StartsToken(p) == \E k \in 1 .. Len(spans) : spans[k].from = p

\* C22: a token that begins where ==, !=, <=, >=, && or || begins is the
\* token of those two characters; one that begins at =, < or > otherwise is
\* EQUAL, LESS or GREAT of that character; one that begins at !, & or |
\* otherwise is UNKNOWN of that one byte; and when tokenize has returned, the
\* character after each token, unless it is whitespace or in a comment, begins
\* the next token.
C22_LongestOperator ==
    phase \in {"tokenizing", "tokenized"} =>
        /\ \A k \in 1 .. Len(tokens) :
            LET from == spans[k].from IN
            IF DigraphAt(from) # "NONE"
            THEN /\ tokens[k] = [type |-> DigraphAt(from), value |-> At(from) \o At(from + 1)]
                 /\ spans[k].to = from + 2
            ELSE LoneType(At(from)) # "NONE" =>
                    /\ tokens[k] = [type |-> LoneType(At(from)), value |-> At(from)]
                    /\ spans[k].to = from + 1
        /\ phase = "tokenized" =>
            \A k \in 1 .. Len(tokens) :
                spans[k].to < InputSize =>
                    \/ isspace(At(spans[k].to))
                    \/ spans[k].to \in CommentPositions(0, "code")
                    \/ StartsToken(spans[k].to)

\* !/*==*/!=&&& has been tokenized: a lone !, the != after the comment, &&
\* and a lone &.
C22_OperatorsSplit ==
    /\ phase = "tokenized"
    /\ m_input = SrcCommentedOps
    /\ tokens = <<[type |-> "UNKNOWN", value |-> "!"], [type |-> "NEGAL", value |-> "!="],
                  [type |-> "AND", value |-> "&&"], [type |-> "UNKNOWN", value |-> "&"]>>

\* The characters [a-z0-9_] of a word, and the end of the longest run of
\* characters of a set that begins at position p.
WordChars == Letters \cup DigitChars \cup {"_"}
RECURSIVE RunEnd(_, _)
RunEnd(p, set) == IF p < InputSize /\ At(p) \in set THEN RunEnd(p + 1, set) ELSE p
\* The token type of a word of the language.
WordType(word) ==
    CASE word = "exit" -> "EXIT"
      [] word = "let" -> "LET"
      [] word = "if" -> "IF"
      [] word = "else" -> "ELSE"
      [] word = "while" -> "WHILE"
      [] word = "print" -> "PRINT"
      [] word = "len" -> "LENGTH"
      [] OTHER -> "IDENTIFIER"

\* C23: a token that begins at a letter or _ is the longest run of letters,
\* digits and _ from there, a keyword token when the whole run is exit, let,
\* if, else, while, print or len and an IDENTIFIER otherwise; a token that
\* begins at a digit is, when a letter or _ follows its digits, one IDENTIFIER
\* of the longest run of letters, digits and _, and otherwise one INT_LITERAL
\* of the longest run of digits, which is not empty.  (Stated for the answer
\* the C locale gives for a byte above 0x7F: no letter, no digit.)
C23_LongestRun ==
    phase \in {"tokenizing", "tokenized"} /\ highClass = "other" =>
        \A k \in 1 .. Len(tokens) :
            LET from == spans[k].from
                word == RunEnd(from, WordChars)
                digits == RunEnd(from, DigitChars)
            IN /\ At(from) \in Letters \cup {"_"} =>
                    /\ spans[k].to = word
                    /\ tokens[k].value = SourceText(from, word)
                    /\ tokens[k].type = WordType(tokens[k].value)
               /\ At(from) \in DigitChars =>
                    IF digits < InputSize /\ At(digits) \in Letters \cup {"_"}
                    THEN /\ spans[k].to = word
                         /\ tokens[k] = [type |-> "IDENTIFIER", value |-> SourceText(from, word)]
                    ELSE /\ spans[k].to = digits
                         /\ digits > from
                         /\ tokens[k] = [type |-> "INT_LITERAL", value |-> SourceText(from, digits)]

\* exit1 letx 12ab 007 len print_ _while 9_ has been tokenized.
C23_RunsRead ==
    /\ phase = "tokenized"
    /\ m_input = SrcRuns
    /\ tokens = <<[type |-> "IDENTIFIER", value |-> "exit1"],
                  [type |-> "IDENTIFIER", value |-> "letx"],
                  [type |-> "IDENTIFIER", value |-> "12ab"],
                  [type |-> "INT_LITERAL", value |-> "007"],
                  [type |-> "LENGTH", value |-> "len"],
                  [type |-> "IDENTIFIER", value |-> "print_"],
                  [type |-> "IDENTIFIER", value |-> "_while"],
                  [type |-> "IDENTIFIER", value |-> "9_"]>>

\* The boundaries the machine is at, and the stackOffset of the statement
\* whose text holds the line pc: that of the last boundary at or before it.
BoundariesHere == {b \in boundaries : NextCode(b.line) = pc}
BoundariesBefore == {b \in boundaries : b.line <= pc}
LiveOffset ==
    (CHOOSE b \in BoundariesBefore : \A c \in BoundariesBefore : c.line <= b.line).offset
FrameDepth == W(reg["rbp"] - reg["rsp"])

\* C24: whenever the generated program is about to run the first instruction
\* of a statement, or what follows the last statement of a block or of the
\* program, rbp - rsp is the stackOffset the generator had when it came
\* there; a variable is stored in a slot between rsp and rbp; and a push (a
\* temporary of an expression, the saved base of an array literal) or a byte
\* written to the buffer of print lands below the slots of the variables
\* declared so far.
C24_FrameDepth ==
    Running =>
        /\ \A b \in BoundariesHere : FrameDepth = b.offset
        /\ BoundariesBefore # {} =>
            /\ FrameDepth >= LiveOffset
            /\ Cur.op = "push" => reg["rsp"] <= reg["rbp"] - LiveOffset
            /\ Cur.op = "mov" /\ Cur.a.k = "memb" =>
                /\ Addr(Cur.a) >= reg["rsp"]
                /\ Addr(Cur.a) < reg["rbp"] - LiveOffset
            /\ Cur.op = "mov" /\ Cur.a.k = "mem" /\ Cur.a.r = "rbp" =>
                /\ Addr(Cur.a) >= reg["rsp"]
                /\ Addr(Cur.a) < reg["rbp"]

\* In let i = 1; while (i < 3) { print(i); i = i + 1; } exit(i); a byte is
\* about to be written to the buffer of print, 32 bytes below the slot of i.
C24_PrintBelowSlots ==
    /\ Running
    /\ program = ProgCountUp(1, 3)
    /\ Cur = Ins("mov", MemB("rcx", 0), Imm(10))
    /\ LiveOffset = 8
    /\ FrameDepth = 40
    /\ Load(W(reg["rbp"] - 8)) = 2

\* The pushes less the pops of the first i lines of the text.
PushDepth(i) ==
    Cardinality({j \in 1 .. i : asm[j].op = "push"})
        - Cardinality({j \in 1 .. i : asm[j].op = "pop"})
\* The instructions that take the value of the expression of a statement.
TakesValue(line) ==
    \/ line = Ins("mov", rdi, rax)
    \/ line = Ins("cmp", rax, Imm(0))
    \/ line = Ins("sub", rsp, Imm(8))
    \/ line = Ins("sub", rsp, Imm(32))
    \/ line = Ins("mov", Mem("rbx", 0), rax)

\* C25: the code of an expression, and of an indexed assignment, leaves the
\* stack as it found it.  In the text, after the push rbp of the prologue,
\* no prefix has popped more than it has pushed, and where a statement
\* begins every push has its pop.  In the run, a pop takes the value its push
\* stored, from the place the push stored it, and never the saved rbp; and
\* where the value of a statement's expression is taken, and where the
\* next statement begins, nothing pushed is left and rsp is where it was
\* when the statement began.
C25_StackNeutral ==
    /\ phase = "emitted" =>
        /\ \A i \in 4 .. Len(asm) : PushDepth(i) >= 1
        /\ \A b \in boundaries : PushDepth(b.line - 1) = 1
    /\ Running =>
        /\ Cur.op = "pop" =>
            /\ Len(pushed) >= 2
            /\ Head(pushed).at = reg["rsp"]
            /\ Head(pushed).value = Load(reg["rsp"])
        /\ BoundariesHere # {} => Len(pushed) = 1
        /\ TakesValue(Cur) => Len(pushed) = 1 /\ FrameDepth = LiveOffset

\* In let a = [[4], 7 - 9, 2 + 3]; exit(0); the 9 is about to be popped
\* from above the saved rbp, the address of the array and its saved copy.
C25_NestedPop ==
    /\ Running
    /\ program = ProgArrayLiteral(<<ArrayExpr(<<Lit(4)>>), Bin(Lit(7), "SUB", Lit(9)),
                                   Bin(Lit(2), "ADD", Lit(3))>>)
    /\ Cur = Ins("pop", rbx, None)
    /\ Len(pushed) = 4
    /\ Head(pushed).value = 9
    /\ reg["rax"] = 7

\* The bindings of the scope stack: the scope, the name and the offset of
\* each.
ScopeBindings ==
    UNION {{[scope |-> i, name |-> n, offset |-> symbolTables[i][n]] :
                n \in DOMAIN symbolTables[i]} : i \in 1 .. Len(symbolTables)}

\* C26: throughout generation, the bindings of the scope stack have offsets
\* that differ from each other, each a positive multiple of 8 and none above
\* stackOffset; a declaration that makes a new binding gives it an offset
\* above those of all the bindings held, so that an offset is given again
\* only when the scope that held it has been closed.
C26_DistinctSlots ==
    /\ [](/\ \A b \in ScopeBindings :
            /\ b.offset % 8 = 0
            /\ b.offset >= 8
            /\ b.offset <= stackOffset
          /\ \A b \in ScopeBindings, c \in ScopeBindings : b # c => b.offset # c.offset)
    /\ [][phase = "generating" =>
            \A b \in ScopeBindings' \ ScopeBindings :
                \A c \in ScopeBindings : b.offset > c.offset]_vars

\* In x = 5; { let x = 7; exit(x); } let x = 4; print(x); the block has been
\* closed and the declaration after it has been given offset 8 again.
C26_SlotGivenAgain ==
    /\ phase = "generating"
    /\ program = Around(5, <<LetStmt("x", Lit(7)), ExitStmt(VarExpr("x"))>>)
    /\ symbolTables = <<("x" :> 8)>>
    /\ stackOffset = 8
    /\ \E i \in 1 .. Len(asm) : asm[i] = Ins("add", rsp, Imm(8))

\* ---------------------------------------------------------------------------
\* C27: generateAssembly is deterministic across calls: the text of a second
\* call within one process, on the same Program, is the text of the first
\* one, the numbers of the if_*, while_* and print labels included.
\* The label numbers come from three static counters that no call resets, so
\* the statement below is what the specification says and the code does not
\* do; C27_SameWithoutLabels is the part of it the code does keep.
\* ---------------------------------------------------------------------------
RECURSIVE HasLabels(_)
HasLabels(stmts) ==
    \E k \in 1 .. Len(stmts) :
        \/ stmts[k].t \in {"IF", "WHILE", "PRINT"}
        \/ stmts[k].t = "BLOCK" /\ HasLabels(stmts[k].statements)

C27_SameWithoutLabels ==
    (phase = "emittedAgain" /\ ~HasLabels(program)) => asm = firstText

C27_LabelsMoveOn ==
    /\ phase = "emittedAgain"
    /\ HasLabels(program)
    /\ Len(asm) = Len(firstText)
    /\ asm # firstText
    /\ printCounter + ifLabelCounter + whileLabelCounter > 0

\* ---------------------------------------------------------------------------
\* C28: in Let(name, expr) the initializer is generated before name is bound.
\* The lines of a let are those of expr under the scopes as they were before
\* the let, then the reservation (if the innermost scope did not bind name)
\* and the store; no line of the initializer names the slot being allocated.
\* An occurrence of name in expr is a load from the slot the scopes gave
\* name before, or the comment and mov rax, 0 of an unresolved name.
\* let x = v; { let x = x + 1; exit(x); } exits with v + 1 and leaves v in
\* the outer slot; let y = y + v; exit(y); exits with v.
\* ---------------------------------------------------------------------------
RECURSIVE NamesIn(_)
NamesIn(e) ==
    CASE e.t = "VARIABLE" -> {e.name}
      [] e.t = "BINARY" -> NamesIn(e.gauche) \cup NamesIn(e.droite)
      [] OTHER -> {}

C28_InitializerFirst ==
    /\ [][AtStmt("LET")
            => LET name == CurStmt.var
                   before == findVariableOffset(name, symbolTables)
                   isNew == name \notin DOMAIN symbolTables[Len(symbolTables)]
                   tail == IF isNew THEN 2 ELSE 1
                   init == SubSeq(Appended, 1, Len(Appended) - tail)
               IN /\ init = generateExpressionCode(CurStmt.expr, symbolTables)
                  /\ isNew => \A i \in 1 .. Len(init) :
                                  /\ init[i].a # Mem("rbp", 0 - (stackOffset + 8))
                                  /\ init[i].b # Mem("rbp", 0 - (stackOffset + 8))
                  /\ name \in NamesIn(CurStmt.expr)
                        => IF before.has
                           THEN \E i \in 1 .. Len(init) :
                                    init[i] = Ins("mov", rax, Mem("rbp", 0 - before.value))
                           ELSE \E i \in 1 .. (Len(init) - 1) :
                                    /\ init[i] = Comment("Variable non definie")
                                    /\ init[i + 1] = Ins("mov", rax, Imm(0))]_vars
    /\ [](\A v \in 0 .. MaxLit, depth \in 1 .. 2 :
            (program = ProgLetInit(v, depth) /\ phase = "exited")
                => exitCode = v + 1 /\ Load(W(reg["rbp"] - 8)) = v)
    /\ [](\A v \in 0 .. MaxLit :
            /\ (program = ProgLetUnbound(v) /\ phase = "exited") => exitCode = v
            /\ (program = ProgLetSame(v) /\ phase = "exited") => exitCode = v + 1)

\* let x = 1; { let x = x + 1; exit(x); } has exited with 2: the inner slot
\* holds 2, the outer one still 1.
C28_OuterRead ==
    /\ program = ProgShadowInit
    /\ phase = "exited"
    /\ exitCode = 2
    /\ Load(W(reg["rbp"] - 8)) = 1
    /\ Load(W(reg["rbp"] - 16)) = 2

\* ---------------------------------------------------------------------------
\* C29: the lexemes of the tokens tokenize returns, concatenated in order,
\* are the source with its whitespace and its comments (line comments, block
\* comments, an unterminated block comment through the end) removed: no other
\* character is dropped, duplicated or reordered; and no lexeme is empty.
\* ---------------------------------------------------------------------------
RECURSIVE Lexemes(_)
Lexemes(k) == IF k = 0 THEN "" ELSE Lexemes(k - 1) \o tokens[k].value

RECURSIVE Stripped(_, _)
Stripped(p, comments) ==
    IF p >= InputSize THEN ""
    ELSE (IF isspace(At(p)) \/ p \in comments THEN "" ELSE At(p)) \o Stripped(p + 1, comments)

C29_LexemesAreSource ==
    /\ phase \in {"tokenizing", "tokenized"} => \A k \in 1 .. Len(tokens) : tokens[k].value # ""
    /\ phase = "tokenized" => Lexemes(Len(tokens)) = Stripped(0, CommentPositions(0, "code"))

\* A source with whitespace, a line comment, a closed block comment and
\* characters no rule knows has been tokenized: fewer characters are in the
\* lexemes than in the source, and an UNKNOWN token carries its character.
C29_SomethingRemoved ==
    /\ phase = "tokenized"
    /\ m_input \in {SrcLineComment, SrcBlockComment, SrcUnterminated, SrcLone}
    /\ CommentPositions(0, "code") # {} \/ \E k \in 1 .. Len(tokens) : tokens[k].type = "UNKNOWN"
    /\ \E q \in 0 .. (InputSize - 1) : isspace(At(q)) \/ q \in CommentPositions(0, "code")
    /\ Len(tokens) >= 4
    /\ Lexemes(Len(tokens)) = Stripped(0, CommentPositions(0, "code"))

\* ---------------------------------------------------------------------------
\* C30: an execution of a generated program that neither loops for ever nor
\* faults reaches an exit syscall.  Control is never past the last line of
\* the text; a run ends only at syscall 60 or at a fault; a run that has
\* begun ends, or stays in the text for ever.  So it is whether the program
\* has an exit at the top level, exits only inside blocks, ifs and whiles
\* (executed or passed over), or no exit at all: where no exit is executed
\* the status is the 0 of the default exit.
\* ---------------------------------------------------------------------------
C30_ReachesExit ==
    /\ [](phase = "running" => pc >= 1 /\ pc <= Len(asm))
    /\ [][(phase = "running" /\ phase' # "running")
            => /\ phase' \in {"exited", "fault"}
               /\ phase' = "exited" => Cur.op = "syscall" /\ reg["rax"] = 60]_vars
    /\ (phase = "running") ~> (phase \in {"exited", "fault"})
    /\ [](\A kind \in NestedExitKinds, c \in 0 .. 1 :
            program = ProgNestedExit(kind, c) =>
                /\ phase # "fault"
                /\ phase = "exited" => exitCode = IF NestedExitTaken(kind, c) THEN 7 ELSE 0)
    /\ []((program = <<>> /\ phase = "exited") => exitCode = 0)

\* The program whose only exit is in the body of a while that is never
\* entered has ended at the default exit, the last line of the text.
C30_PassedOverExit ==
    /\ program = ProgNestedExit(4, 0)
    /\ phase = "exited"
    /\ exitCode = 0
    /\ pc = Len(asm)
    /\ ~hasExitStmt

====
